---------------------------- MODULE Spec2Model ----------------------------
(***************************************************************************)
(* Model of scrape_bestsellers_updated.py: the text/value normalizer, the  *)
(* validation and deduplication pipeline, and the per-category             *)
(* orchestrator scrape_category with the page handle it drives.            *)
(*                                                                         *)
(* A Python str is a sequence of one-character strings.  None (an absent   *)
(* value, a missing dict key read with .get) is the one-element sequence   *)
(* Absent, whose element is not a character.                               *)
(***************************************************************************)
EXTENDS Integers, Sequences, FiniteSets, TLC

VARIABLES
    nrm,        \* normalizer harness: [fn, inp, out] of the last call
    vld,        \* validator harness: [stage, items, out] of the last call
    pc,         \* where scrape_category (or the function it called) stands
    page,       \* the page handle: [cur, url, loaded]
    site,       \* the category's two result pages, as the server sends them
    loc,        \* local variables of scrape_category and of its callees
    ret,        \* how scrape_category ended: [outcome, value]
    hist        \* history: what the extractors produced, the tactics tried

vars == <<nrm, vld, pc, page, site, loc, ret, hist>>

scrapeVars == <<pc, page, site, loc, ret, hist>>

(***************************************************************************)
(* Strings                                                                 *)
(***************************************************************************)
Absent == <<"<None>">>

\* Python truthiness of a str-or-None value: None and "" are falsy.
Falsy(s) == s = Absent \/ s = <<>>

\* Characters for which str.isspace() holds, as far as the inputs use them.
WS == {" ", "\t", "\n"}

\* Characters matched by \d, as far as the inputs use them.
DIGITS == {"0", "1", "2", "3", "4", "5", "6", "7", "8", "9"}

SetMin(S) == CHOOSE x \in S : \A y \in S : x <= y

\* n copies of character c.
Rep(c, n) == [i \in 1..n |-> c]

\* Python slice s[:n].
Prefix(s, n) == SubSeq(s, 1, IF Len(s) < n THEN Len(s) ELSE n)

\* Python "sub in s".
Contains(sub, s) ==
    \E i \in 1..(Len(s) - Len(sub) + 1) : SubSeq(s, i, i + Len(sub) - 1) = sub

\* str.split() with no separator: the maximal runs of non-whitespace.
RECURSIVE Split(_)
Split(s) ==
    LET nonws == {i \in 1..Len(s) : s[i] \notin WS}
    IN  IF nonws = {} THEN <<>>
        ELSE LET b == SetMin(nonws)
                 after == {i \in b..Len(s) : s[i] \in WS}
                 e == IF after = {} THEN Len(s) + 1 ELSE SetMin(after)
             IN  <<SubSeq(s, b, e - 1)>> \o Split(SubSeq(s, e, Len(s)))

\* sep.join(words).
RECURSIVE Join(_, _)
Join(sep, words) ==
    IF words = <<>> THEN <<>>
    ELSE IF Len(words) = 1 THEN words[1]
    ELSE words[1] \o sep \o Join(sep, Tail(words))

\* str.strip() with no argument.
Strip(s) ==
    LET nonws == {i \in 1..Len(s) : s[i] \notin WS}
    IN  IF nonws = {} THEN <<>>
        ELSE SubSeq(s, SetMin(nonws), CHOOSE i \in nonws : \A j \in nonws : j <= i)

(***************************************************************************)
(* Text/value normalizer                                                   *)
(***************************************************************************)
NAME_LIMIT == 500
RATING_LIMIT == 100

clean_text(s) ==
    IF Falsy(s) THEN <<>>
    ELSE Strip(Join(<<" ">>, Split(s)))

\* re.search(r"#?(\d+)", text).group(1): the leftmost position where the
\* pattern matches, an optional "#" and then the longest run of digits.
DigitRun(s, i) ==
    LET stop == {j \in i..Len(s) : s[j] \notin DIGITS}
    IN  SubSeq(s, i, IF stop = {} THEN Len(s) ELSE SetMin(stop) - 1)

RankMatchAt(s, i) ==
    IF s[i] = "#" /\ i < Len(s) /\ s[i + 1] \in DIGITS THEN DigitRun(s, i + 1)
    ELSE IF s[i] \in DIGITS THEN DigitRun(s, i)
    ELSE <<>>

\* Mutant of clean_rank: the digits without the leading "#".
clean_rank_bare(rank_text) ==
    IF Falsy(rank_text) THEN <<>>
    ELSE LET hits == {i \in 1..Len(rank_text) : RankMatchAt(rank_text, i) # <<>>}
         IN  IF hits = {} THEN <<>>
             ELSE RankMatchAt(rank_text, SetMin(hits))

clean_rank(rank_text) ==
    IF Falsy(rank_text) THEN <<>>
    ELSE LET hits == {i \in 1..Len(rank_text) : RankMatchAt(rank_text, i) # <<>>}
         IN  IF hits = {} THEN <<>>
             ELSE <<"#">> \o RankMatchAt(rank_text, SetMin(hits))

clean_product_name(name) ==
    IF Falsy(name) THEN <<>>
    ELSE LET cleaned == clean_text(name)
         IN  IF Len(cleaned) > NAME_LIMIT THEN Prefix(cleaned, NAME_LIMIT)
             ELSE cleaned

DP == <<"/", "d", "p", "/">>

validate_product_link(link) ==
    IF Falsy(link) \/ ~Contains(DP, link) THEN <<>>
    ELSE link

clean_rating(rating_text) ==
    IF Falsy(rating_text) THEN <<>>
    ELSE Prefix(clean_text(rating_text), RATING_LIMIT)

clean_price(price_text) ==
    IF Falsy(price_text) THEN <<>>
    ELSE clean_text(price_text)

(***************************************************************************)
(* Validation and deduplication pipeline.  A candidate is a Python dict: a *)
(* function from its keys to str-or-None values.                           *)
(***************************************************************************)
MIN_NAME_LEN == 10

\* dict.get(key, default).
Get(item, key, default) == IF key \in DOMAIN item THEN item[key] ELSE default

CleanedItem(item) ==
    [rank |-> clean_rank(Get(item, "rank", <<>>)),
     name |-> clean_product_name(Get(item, "name", <<>>)),
     link |-> validate_product_link(Get(item, "link", <<>>)),
     rating |-> clean_rating(Get(item, "rating", <<>>)),
     price |-> clean_price(Get(item, "price", <<>>))]

\* The two tests of the first loop: essential fields, then meaningful data.
KeepsItem(item) ==
    /\ ~Falsy(Get(item, "name", Absent))
    /\ ~Falsy(Get(item, "link", Absent))
    /\ LET v == CleanedItem(item)
       IN  ~Falsy(v.name) /\ ~Falsy(v.link) /\ Len(v.name) > MIN_NAME_LEN

\* One turn of the second loop on its state: seen_links, unique_items.
UniqueStep(st, item) ==
    IF item.link \notin st.seen_links
    THEN [seen_links |-> st.seen_links \cup {item.link},
          unique_items |-> Append(st.unique_items, item)]
    ELSE st

\* The loop over items[lo..hi] in order, from state st: the first half of the
\* range, then the second half from the state the first half left.  (The
\* test on DOMAIN is never true; it makes TLC finish the first half before
\* it begins the second, which keeps the evaluation shallow.)
RECURSIVE UniqueLoop(_, _, _, _)
UniqueLoop(items, lo, hi, st) ==
    IF lo > hi THEN st
    ELSE IF lo = hi THEN UniqueStep(st, items[lo])
    ELSE LET done == UniqueLoop(items, lo, (lo + hi) \div 2, st)
         IN  IF DOMAIN done = {} THEN done
             ELSE UniqueLoop(items, (lo + hi) \div 2 + 1, hi, done)

ValidatedItems(items) ==
    LET kept == SelectSeq(items, KeepsItem)
    IN  [i \in 1..Len(kept) |-> CleanedItem(kept[i])]

\* Mutant of validate_and_clean_items: the link deduplication is left out.
validate_without_dedup(items) == ValidatedItems(items)

validate_and_clean_items(items) ==
    LET validated_items == ValidatedItems(items)
    IN  UniqueLoop(validated_items, 1, Len(validated_items),
                   [seen_links |-> {}, unique_items |-> <<>>]).unique_items

WithoutKey(item, key) == [k \in DOMAIN item \ {key} |-> item[k]]

\* Mutant of DedupStep: a kept item is put in front of unique_items.
DedupStepInFront(st, item) ==
    LET link == Get(item, "link", <<>>)
    IN  IF ~Falsy(link) /\ link \notin st.seen_links
        THEN [seen_links |-> st.seen_links \cup {link},
              seen_asins |-> st.seen_asins,
              unique_items |-> <<WithoutKey(item, "asin")>> \o st.unique_items]
        ELSE st

\* One turn of the loop of deduplicate_products on its state: seen_links,
\* seen_asins, unique_items.
DedupStep(st, item) ==
    LET link == Get(item, "link", <<>>)
        asin == Get(item, "asin", <<>>)
    IN  IF ~Falsy(asin) /\ asin \notin st.seen_asins
        THEN [seen_links |-> st.seen_links,
              seen_asins |-> st.seen_asins \cup {asin},
              unique_items |-> Append(st.unique_items, WithoutKey(item, "asin"))]
        ELSE IF ~Falsy(link) /\ link \notin st.seen_links
        THEN [seen_links |-> st.seen_links \cup {link},
              seen_asins |-> st.seen_asins,
              unique_items |-> Append(st.unique_items, WithoutKey(item, "asin"))]
        ELSE st

\* The loop over items[lo..hi] in order, from state st (split as UniqueLoop).
RECURSIVE DedupLoop(_, _, _, _)
DedupLoop(items, lo, hi, st) ==
    IF lo > hi THEN st
    ELSE IF lo = hi THEN DedupStep(st, items[lo])
    ELSE LET done == DedupLoop(items, lo, (lo + hi) \div 2, st)
         IN  IF DOMAIN done = {} THEN done
             ELSE DedupLoop(items, (lo + hi) \div 2 + 1, hi, done)

\* Mutant of deduplicate_products: nothing is removed.
keep_all_products(items) == [i \in 1..Len(items) |-> WithoutKey(items[i], "asin")]

deduplicate_products(items) ==
    DedupLoop(items, 1, Len(items),
              [seen_links |-> {}, seen_asins |-> {}, unique_items |-> <<>>]).unique_items

(***************************************************************************)
(* More of Python's str, for the extractors and the URL rewrite.           *)
(***************************************************************************)
\* The first index from i on whose character is not in set, or Len(s) + 1.
SkipWhile(s, i, set) ==
    LET stop == {j \in i..Len(s) : s[j] \notin set}
    IN  IF stop = {} THEN Len(s) + 1 ELSE SetMin(stop)

StartsAt(s, i, sub) ==
    i >= 1 /\ i + Len(sub) - 1 <= Len(s) /\ SubSeq(s, i, i + Len(sub) - 1) = sub

\* str.lower(), for the letters the inputs use in upper case.
LowerChar(c) ==
    CASE c = "S" -> "s" [] c = "T" -> "t" [] c = "A" -> "a" [] c = "R" -> "r"
      [] c = "B" -> "b" [] OTHER -> c

Lower(s) == [i \in 1..Len(s) |-> LowerChar(s[i])]

\* re.search(r"^\d+\.?\d*\s*out\s*of\s*5", text) finds a match.
RatingPhrase(text) ==
    LET i1 == SkipWhile(text, 1, DIGITS)
        i2 == IF i1 <= Len(text) /\ text[i1] = "." THEN i1 + 1 ELSE i1
        i3 == SkipWhile(text, i2, DIGITS)
        i4 == SkipWhile(text, i3, WS)
        i5 == SkipWhile(text, i4 + 3, WS)
        i6 == SkipWhile(text, i5 + 2, WS)
    IN  /\ i1 > 1
        /\ StartsAt(text, i4, <<"o", "u", "t">>)
        /\ StartsAt(text, i5, <<"o", "f">>)
        /\ StartsAt(text, i6, <<"5">>)

\* str.replace(old, new): every non-overlapping occurrence, left to right.
RECURSIVE Replace(_, _, _)
Replace(s, old, new) ==
    LET hits == {i \in 1..Len(s) : StartsAt(s, i, old)}
    IN  IF hits = {} THEN s
        ELSE LET i == SetMin(hits)
             IN  SubSeq(s, 1, i - 1) \o new
                     \o Replace(SubSeq(s, i + Len(old), Len(s)), old, new)

BASE_URL ==
    <<"h", "t", "t", "p", "s", ":", "/", "/", "w", "w", "w", ".",
      "a", "m", "a", "z", "o", "n", ".", "i", "n">>

\* urljoin(BASE_URL, href): an absolute URL is kept, a path is put on the
\* base's origin.
urljoin(base, href) ==
    IF StartsAt(href, 1, <<"h", "t", "t", "p">>) THEN href
    ELSE IF StartsAt(href, 1, <<"/">>) THEN base \o href
    ELSE base \o <<"/">> \o href

(***************************************************************************)
(* The site behind the page handle: products, their containers, and the    *)
(* two result pages of a category.                                         *)
(***************************************************************************)
DigitChars == <<"0", "1", "2", "3", "4", "5", "6", "7", "8", "9">>

RECURSIVE Decimal(_)
Decimal(n) ==
    IF n < 10 THEN <<DigitChars[n + 1]>>
    ELSE Decimal(n \div 10) \o <<DigitChars[(n % 10) + 1]>>

ProductAsin(p) == <<"B">> \o Decimal(p)

ProductName(p) ==
    <<"B", "e", "s", "t", "s", "e", "l", "l", "e", "r", " ",
      "i", "t", "e", "m", " ">> \o Decimal(p)

\* A product's href carries a reference tag that depends on where it is listed.
ProductHref(p, ref) ==
    DP \o ProductAsin(p) \o <<"/", "r", "e", "f", "=">> \o Decimal(ref)

\* The aria-label of the rating link of product p, and the text of its
\* price span.
RatingLabel(p) ==
    <<"4", ".", DigitChars[(p % 10) + 1], " ", "o", "u", "t", " ", "o", "f",
      " ", "5", " ", "s", "t", "a", "r", "s">>

PriceText(p) == <<"R", "s">> \o Decimal(p + 100)

\* The container of product p: its data-asin, its a.a-link-normal anchors
\* with "/dp/" in the href (image, title, rating) in document order, its rank
\* badge, its rating link's aria-label and its price span.
Container(p, ref, rank) ==
    [asin |-> ProductAsin(p),
     anchors |-> <<[text |-> <<>>, href |-> ProductHref(p, ref)],
                   [text |-> ProductName(p) \o <<"\n">>, href |-> ProductHref(p, ref)],
                   [text |-> RatingLabel(p), href |-> ProductHref(p, ref)]>>,
     badge |-> <<"#">> \o Decimal(rank),
     rating |-> RatingLabel(p),
     price |-> PriceText(p)]

\* A result page: n containers for the products from first on; with twin 1
\* or 2 the last container shows the first product again, under the same
\* href (1) or under an href with another reference tag (2).
ResultPage(n, first, ref, twin) ==
    [i \in 1..n |->
        IF twin # 0 /\ i = n /\ n > 1
        THEN Container(first, IF twin = 1 THEN ref ELSE ref + 2, i)
        ELSE Container(first + i - 1, ref, i)]

\* A product name with "star" in it.
StarName ==
    <<"S", "t", "a", "r", " ", "c", "h", "a", "r", "t", " ", "o", "f", " ",
      "t", "h", "e", " ", "n", "o", "r", "t", "h", "e", "r", "n", " ", "s",
      "k", "y">>

\* The containers that keep their price span on a page not all priced.
MaxPriced == 2

\* The page of shape sh: ResultPage, without its rank badges unless
\* sh.badge, with price spans in its first MaxPriced containers only unless
\* sh.priced, and with StarName as the name of its first container's product
\* when sh.star.
ShapedPage(sh) ==
    LET base == ResultPage(sh.n, sh.first, sh.ref, sh.twin)
    IN  IF sh.badge /\ ~sh.star /\ sh.priced THEN base
        ELSE [i \in 1..sh.n |->
                LET b == IF sh.badge THEN base[i]
                         ELSE [base[i] EXCEPT !.badge = Absent]
                    c == IF sh.priced \/ i <= MaxPriced THEN b
                         ELSE [b EXCEPT !.price = Absent]
                IN  IF sh.star /\ i = 1
                    THEN [c EXCEPT !.anchors[2].text = StarName \o <<"\n">>]
                    ELSE c]

(***************************************************************************)
(* Core product extraction                                                 *)
(***************************************************************************)
MAX_CONTAINERS == 100
MAX_FALLBACK == 50
MIN_ANCHOR_TEXT == 15

\* The filter on a candidate name anchor, lines 372-378 and 446-453.
ProductAnchor(text, href) ==
    /\ ~Falsy(text)
    /\ Len(text) > MIN_ANCHOR_TEXT
    /\ ~Falsy(href)
    /\ ~RatingPhrase(text)
    /\ ~Contains(<<"s", "t", "a", "r">>, Lower(text))

\* Lines 389-393: the aria-label of the container's first rating link.
UniversalRating(container) ==
    IF container.rating = Absent THEN <<>> ELSE clean_text(container.rating)

\* Lines 395-399: the text of the container's first price span.
UniversalPrice(container) ==
    IF container.price = Absent THEN <<>> ELSE clean_text(container.price)

\* The candidates one container adds to items: one, or none when it has no
\* name and link.
ContainerCandidate(container) ==
    LET a == container.anchors
        ok == {j \in 1..Len(a) : ProductAnchor(clean_text(a[j].text), a[j].href)}
        name == IF ok = {} THEN <<>> ELSE clean_text(a[SetMin(ok)].text)
        link == IF ok = {} THEN <<>> ELSE urljoin(BASE_URL, a[SetMin(ok)].href)
    IN  IF ~Falsy(name) /\ ~Falsy(link) /\ Len(name) > MIN_ANCHOR_TEXT
        THEN <<[rank |-> IF container.badge = Absent THEN <<>>
                         ELSE clean_text(container.badge),
                name |-> name,
                link |-> link,
                rating |-> UniversalRating(container),
                price |-> UniversalPrice(container),
                asin |-> container.asin]>>
        ELSE <<>>

\* The concatenation of seqs[lo..hi].
RECURSIVE Concat(_, _, _)
Concat(seqs, lo, hi) ==
    IF lo > hi THEN <<>>
    ELSE IF lo = hi THEN seqs[lo]
    ELSE Concat(seqs, lo, (lo + hi) \div 2) \o Concat(seqs, (lo + hi) \div 2 + 1, hi)

\* Mutant of extract_from_asin_containers_universal: the first container
\* that raises ends the loop.
extract_until_failure(containers, failing) ==
    LET container_count == Len(containers)
        n == IF container_count < MAX_CONTAINERS THEN container_count
             ELSE MAX_CONTAINERS
        last == IF failing \cap (1..n) = {} THEN n
                ELSE SetMin(failing \cap (1..n)) - 1
    IN  Concat([i \in 1..last |-> ContainerCandidate(containers[i])], 1, last)

\* The loop over the first 100 containers; a container in failing raises
\* while it is read and is skipped.
extract_from_asin_containers_universal(containers, failing) ==
    LET container_count == Len(containers)
        n == IF container_count < MAX_CONTAINERS THEN container_count
             ELSE MAX_CONTAINERS
    IN  Concat([i \in 1..n |-> IF i \in failing THEN <<>>
                               ELSE ContainerCandidate(containers[i])], 1, n)

\* The page-wide collections of the fallback, in document order.
PageAnchors(containers) ==
    Concat([i \in 1..Len(containers) |-> containers[i].anchors],
           1, Len(containers))

FallbackLink(a) ==
    ProductAnchor(clean_text(a.text), a.href) /\ Contains(DP, a.href)

\* A page-wide collection: the elements of one kind, in document order.
PageCollection(containers, field) ==
    LET all == [i \in 1..Len(containers) |-> containers[i][field]]
    IN  SelectSeq(all, LAMBDA x : x # Absent)

\* Mutant of Correlated: the element after the one asked for.
CorrelatedNext(collection, idx) ==
    IF Len(collection) > idx + 1 THEN clean_text(collection[idx + 2]) ELSE <<>>

\* Element idx (from 0) of a page-wide collection, or "" past its end.
Correlated(collection, idx) ==
    IF Len(collection) > idx THEN clean_text(collection[idx + 1]) ELSE <<>>

\* Lines 438-465 and the slice of line 470: the first 50 valid product
\* links; a link in failing raises while it is read and is skipped.
ValidProductLinks(containers, failing) ==
    LET links == PageAnchors(containers)
        okIdx == SelectSeq([i \in 1..Len(links) |-> i],
                           LAMBDA i : i \notin failing /\ FallbackLink(links[i]))
        valid == [k \in 1..Len(okIdx) |->
                    [name |-> clean_text(links[okIdx[k]].text),
                     link |-> urljoin(BASE_URL, links[okIdx[k]].href)]]
    IN  Prefix(valid, MAX_FALLBACK)

\* Lines 470-496: the candidates of the valid links first, with the fields
\* correlated by position; a link in dropped has a read that raises and
\* gives no candidate.
CorrelatedCandidates(containers, first, dropped) ==
    LET rank_badges == PageCollection(containers, "badge")
        price_spans == PageCollection(containers, "price")
        rating_links == PageCollection(containers, "rating")
        kept == SelectSeq([idx \in 1..Len(first) |-> idx],
                          LAMBDA idx : idx \notin dropped)
    IN  [k \in 1..Len(kept) |->
            [rank |-> Correlated(rank_badges, kept[k] - 1),
             name |-> first[kept[k]].name,
             link |-> first[kept[k]].link,
             rating |-> Correlated(rating_links, kept[k] - 1),
             price |-> Correlated(price_spans, kept[k] - 1)]]

\* Mutant of extract_using_universal_selectors: a candidate with a field
\* past the end of its collection is not emitted.
extract_only_complete(containers, failing, dropped) ==
    SelectSeq(CorrelatedCandidates(containers,
                                   ValidProductLinks(containers, failing), dropped),
              LAMBDA c : c.rank # <<>> /\ c.price # <<>> /\ c.rating # <<>>)

\* The two loops of the fallback.
extract_using_universal_selectors(containers, failing, dropped) ==
    CorrelatedCandidates(containers, ValidProductLinks(containers, failing), dropped)

(***************************************************************************)
(* scrape_category and the page handle.                                    *)
(*                                                                         *)
(* page.cur is the result page displayed (0 before the first navigation),  *)
(* page.url its URL, page.loaded the number of item containers in the DOM: *)
(* a page arrives with none or all of its containers, and a scroll to the  *)
(* bottom may bring the missing ones.  Every page-handle call may raise.   *)
(***************************************************************************)
MAX_SCROLLS == 8
STABLE_ITERATIONS == 2
STABLE_MIN_COUNT == 20
LOW_COUNT == 10
LOW_COUNT_FROM_SCROLL == 3
RELOAD_BELOW == 5
CONTAINER_METHOD_MIN == 10
FALLBACK_BELOW == 15
PAGE2_MIN_ITEMS == 15
NAV_MIN_CONTAINERS == 10
NUM_TACTICS == 5
MAX_ITEMS == 100

\* Bounds of the site: how many leading containers (or links) may fail to be
\* read, and how many products two pages may share.
MaxFailing == 1
MaxOverlap == 10
MaxLateScroll == 1

Page1Sizes == {9, 15, 30, 51}
Page2Sizes == {25, 50}
Twins == {0, 1, 2}
CategoryPaths == {<<"/", "b">>}

PG1 == <<"p", "g", "=", "1">>
PG2 == <<"p", "g", "=", "2">>
PAGE2 == <<"p", "a", "g", "e", "=", "2">>

NoPage ==
    [n |-> 0, first |-> 1, ref |-> 1, twin |-> 0, badge |-> TRUE, star |-> FALSE,
     priced |-> TRUE, read |-> FALSE]

\* The containers in the DOM of the page displayed.
Dom == SubSeq(ShapedPage(site[page.cur]), 1, page.loaded)

\* The sets of indices whose read raises: none, or one of the first few.
FailingSets(n) ==
    {{}} \cup {{j} : j \in 1..(IF n < MaxFailing THEN n ELSE MaxFailing)}

\* The href the site's "next page" control leads to.
NextPageUrl(u) ==
    u \o (IF Contains(<<"?">>, u) THEN <<"&">> ELSE <<"?">>) \o PG2

\* The URL navigate_by_url_modification goes to.
RewrittenUrl(current_url) ==
    LET separator == IF Contains(<<"?">>, current_url) THEN <<"&">> ELSE <<"?">>
        replaced == Replace(current_url, PG1, PG2)
    IN  IF Contains(<<"p", "g", "=">>, current_url)
        THEN IF replaced = current_url THEN current_url \o separator \o PG2
             ELSE replaced
        ELSE current_url \o separator \o PG2

\* Mutant of CategoryFailure: the failure leaves scrape_category.
CategoryFailureEscapes(e, category_url) == [outcome |-> "raised", value |-> e]

\* Mutant of CategoryFailure: the items of the first page are returned.
CategoryFailureKeepsFirstBatch(e, category_url) ==
    [outcome |-> "returned",
     value |-> [category_link |-> category_url,
                category_items |-> deduplicate_products(loc.first_batch),
                extraction_stats |-> [error |-> e,
                                      page1_items |-> Len(loc.first_batch),
                                      page2_items |-> 0,
                                      total_before_dedup |-> Len(loc.first_batch),
                                      final_unique_items |-> Len(loc.first_batch)]]]

\* The except clause of scrape_category: the minimal structure.
CategoryFailure(e, category_url) ==
    [outcome |-> "returned",
     value |-> [category_link |-> category_url,
                category_items |-> <<>>,
                extraction_stats |-> [error |-> e,
                                      page1_items |-> 0,
                                      page2_items |-> 0,
                                      total_before_dedup |-> 0,
                                      final_unique_items |-> 0]]]

\* The result of the normal path, lines 730-755.
\* Mutant of CategoryResult: the cap of line 737 is left out.
CategoryResultUncapped(category_url, first_batch, second_batch, initial_asin_count) ==
    LET all_items == first_batch \o second_batch
        final_items == deduplicate_products(all_items)
    IN  [outcome |-> "returned",
         value |-> [category_link |-> category_url,
                    category_items |-> final_items,
                    extraction_stats |-> [page1_items |-> Len(first_batch),
                                          page2_items |-> Len(second_batch),
                                          total_before_dedup |-> Len(all_items),
                                          final_unique_items |-> Len(final_items),
                                          initial_asin_count |-> initial_asin_count]]]

\* Mutant of CategoryResult: total_before_dedup is counted after the
\* deduplication.
CategoryResultTotalAfterDedup(category_url, first_batch, second_batch, initial_asin_count) ==
    LET all_items == first_batch \o second_batch
        unique_items == deduplicate_products(all_items)
        final_items == Prefix(unique_items, MAX_ITEMS)
    IN  [outcome |-> "returned",
         value |-> [category_link |-> category_url,
                    category_items |-> final_items,
                    extraction_stats |-> [page1_items |-> Len(first_batch),
                                          page2_items |-> Len(second_batch),
                                          total_before_dedup |-> Len(unique_items),
                                          final_unique_items |-> Len(final_items),
                                          initial_asin_count |-> initial_asin_count]]]

\* Lines 730-755: combine, deduplicate, cap, and the result returned.
CategoryResult(category_url, first_batch, second_batch, initial_asin_count) ==
    LET all_items == first_batch \o second_batch
        unique_items == deduplicate_products(all_items)
        final_items == Prefix(unique_items, MAX_ITEMS)
    IN  [outcome |-> "returned",
         value |-> [category_link |-> category_url,
                    category_items |-> final_items,
                    extraction_stats |-> [page1_items |-> Len(first_batch),
                                          page2_items |-> Len(second_batch),
                                          total_before_dedup |-> Len(all_items),
                                          final_unique_items |-> Len(final_items),
                                          initial_asin_count |-> initial_asin_count]]]

\* Mutant of ShouldPaginate: page 2 is tried whatever page 1 gave.
ShouldPaginateAlways(first_batch) == Len(first_batch) >= 0

\* Lines 709-711: page 2 is tried when page 1 was reasonably successful.
ShouldPaginate(first_batch) == Len(first_batch) >= PAGE2_MIN_ITEMS

\* Mutant of AfterNavigation: the result of the navigation is ignored.
AfterNavigationIgnored(navigated) == "settle2"

\* Lines 714-724: where scrape_category goes on what navigate_to_next_page
\* returned.
AfterNavigation(navigated) == IF navigated THEN "settle2" ELSE "finish"

\* Mutant of ContentConfirms: any number of containers confirms.
ContentConfirmsAny(pg) == pg.loaded >= 0

\* Mutant of NeedsFallback: the fallback runs below 10 candidates only.
NeedsFallbackBelowTen(items) == Len(items) < CONTAINER_METHOD_MIN

\* Line 522: the container method's candidates are insufficient.
NeedsFallback(items) == Len(items) < FALLBACK_BELOW

\* Mutant of ChosenItems: the fallback also replaces candidates as numerous
\* as its own.
ChosenItemsNotFewer(items, fallback_items) ==
    IF Len(fallback_items) >= Len(items) THEN fallback_items ELSE items

\* Lines 527-528: the fallback's candidates replace the container method's
\* when they are strictly more.
ChosenItems(items, fallback_items) ==
    IF Len(fallback_items) > Len(items) THEN fallback_items ELSE items

\* fallback: whether extract_products_on_page has run the fallback, and the
\* fallback_items it got.
NoFallback == [ran |-> FALSE, items |-> <<>>]

LocInit ==
    [category_url |-> <<>>, initial_asin_count |-> 0, batch |-> 1,
     first_batch |-> <<>>, second_batch |-> <<>>, items |-> <<>>,
     fallback |-> NoFallback,
     scroll_num |-> 0, last_asin_count |-> 0, stable_iterations |-> 0,
     tactic |-> 0]

\* raw: what the extractors handed to the validator, per batch; skipped:
\* the reads that raised and were skipped in the last extraction; failing:
\* the containers whose read raised in the last run of the container method;
\* tried: the
\* tactics attempted, in order, by the navigate_to_next_page in progress or
\* just returned; why: what made it leave the tactic before the one it is
\* at ("raised", "wait", "unverified"); nav: what
\* navigate_to_next_page returned; boundary: the failure that reached the
\* except clause of scrape_category.
HistInit ==
    [raw |-> <<<<>>, <<>>>>, skipped |-> 0, failing |-> {}, tried |-> <<>>,
     why |-> "", nav |-> "none", boundary |-> ""]

InitScrapeIdle ==
    /\ pc = "idle"
    /\ page = [cur |-> 0, url |-> <<>>, loaded |-> 0]
    /\ site = <<NoPage, NoPage>>
    /\ loc = LocInit
    /\ ret = [outcome |-> "running", value |-> <<>>]
    /\ hist = HistInit

\* A failure that no inner handler catches reaches the except clause of
\* scrape_category, which returns.
Raise(e) ==
    /\ pc' = "done"
    /\ ret' = CategoryFailure(e, loc.category_url)
    /\ hist' = [hist EXCEPT !.boundary = e]
    /\ UNCHANGED <<page, site, loc>>

\* Entering scroll_to_bottom_enhanced through extract_products_on_page.
EnterExtract(l, batch) ==
    [l EXCEPT !.batch = batch, !.items = <<>>, !.fallback = NoFallback,
              !.scroll_num = 0,
              !.last_asin_count = 0, !.stable_iterations = 0]

\* Mutant of NeedsReload: fewer than 10 containers cause the reload.
NeedsReloadBelowTen(initial_asin_count) == initial_asin_count < LOW_COUNT

\* Line 693: the test for the one reload.
NeedsReload(initial_asin_count) == initial_asin_count < RELOAD_BELOW

\* Lines 683-693: goto, settle pause, first container count.
Goto ==
    /\ pc = "start"
    /\ \/ \E e \in {"goto", "wait_for_timeout", "count"} : Raise(e)
       \/ \E n \in Page1Sizes, t \in Twins :
            \E loaded \in {0, n} :
                /\ site' = [site EXCEPT ![1] = [NoPage EXCEPT !.n = n, !.twin = t,
                                                               !.read = TRUE]]
                /\ page' = [cur |-> 1, url |-> loc.category_url, loaded |-> loaded]
                /\ loc' = IF NeedsReload(loaded)
                          THEN [loc EXCEPT !.initial_asin_count = loaded]
                          ELSE EnterExtract([loc EXCEPT !.initial_asin_count = loaded], 1)
                /\ pc' = IF NeedsReload(loaded) THEN "reload" ELSE "sc_wait"
                /\ UNCHANGED <<ret, hist>>

\* Lines 693-698: one reload, settle pause, second container count.
Reload ==
    /\ pc = "reload"
    /\ \/ \E e \in {"reload", "wait_for_timeout", "count"} : Raise(e)
       \/ \E loaded \in {0, site[1].n} :
            /\ page' = [page EXCEPT !.loaded = loaded]
            /\ loc' = EnterExtract([loc EXCEPT !.initial_asin_count = loaded], 1)
            /\ pc' = "sc_wait"
            /\ UNCHANGED <<site, ret, hist>>

\* Lines 290-296: the network-idle wait; when it raises, the DOM-ready wait,
\* which is outside the try.
ScrollWait ==
    /\ pc = "sc_wait"
    /\ \/ /\ pc' = "sc_loop"
          /\ UNCHANGED <<page, site, loc, ret, hist>>
       \/ Raise("wait_for_load_state")

\* Mutant of StopsScrolling: stability alone ends the loop.
StopsScrollingWhenStable(stable_iterations, current_asin_count) ==
    stable_iterations >= STABLE_ITERATIONS

\* Line 323: the test that ends the scroll loop before its budget is used.
StopsScrolling(stable_iterations, current_asin_count) ==
    /\ stable_iterations >= STABLE_ITERATIONS
    /\ current_asin_count >= STABLE_MIN_COUNT

\* Lines 302-330: one turn of the scroll loop.
ScrollIteration ==
    /\ pc = "sc_loop"
    /\ loc.scroll_num < MAX_SCROLLS
    /\ \/ \E e \in {"evaluate", "wait_for_timeout", "count"} : Raise(e)
       \/ \E current_asin_count \in
               {page.loaded} \cup (IF loc.scroll_num < MaxLateScroll
                                   THEN {site[page.cur].n} ELSE {}) :
            LET grew == current_asin_count > loc.last_asin_count
                stable == IF grew THEN 0 ELSE loc.stable_iterations + 1
                stop == StopsScrolling(stable, current_asin_count)
                low == ~stop /\ current_asin_count < LOW_COUNT
                       /\ loc.scroll_num >= LOW_COUNT_FROM_SCROLL
            IN  \/ /\ page' = [page EXCEPT !.loaded = current_asin_count]
                   /\ loc' = [loc EXCEPT
                                !.last_asin_count =
                                    IF grew THEN current_asin_count ELSE @,
                                !.stable_iterations = stable,
                                !.scroll_num = IF stop THEN @ ELSE @ + 1]
                   /\ pc' = IF stop \/ loc.scroll_num + 1 = MAX_SCROLLS
                            THEN "sc_final" ELSE "sc_loop"
                   /\ UNCHANGED <<site, ret, hist>>
                \/ \* the extra pause of a low count raises
                   /\ low
                   /\ Raise("wait_for_timeout")

\* Lines 332-335 and 512-513: the final count, and the count of the
\* containers extract_products_on_page locates.
ScrollFinal ==
    /\ pc = "sc_final"
    /\ \/ Raise("count")
       \/ /\ loc' = [loc EXCEPT !.scroll_num = 0, !.last_asin_count = 0,
                                 !.stable_iterations = 0]
          /\ pc' = "ex_containers"
          /\ UNCHANGED <<page, site, ret, hist>>

(***************************************************************************)
(* The harnesses' variables when no call has been made.                    *)
(***************************************************************************)
NrmIdle == [fn |-> "none", inp |-> Absent, out |-> <<>>]
VldIdle == [stage |-> "idle", items |-> <<>>, out |-> <<>>]

\* The containers of a page of shape sh of which loaded are in the DOM.
DomOf(sh, loaded) == SubSeq(ShapedPage(sh), 1, loaded)

\* What the second page may hold, given the first: products that follow the
\* first page's, of which the first k are the first page's last k, listed
\* under the same reference tag (1) or another one (2).
Page2Shapes(n1, n2) ==
    LET most == IF n1 < n2 THEN n1 ELSE n2
        top == IF most < MaxOverlap THEN most ELSE MaxOverlap
    IN  {[NoPage EXCEPT !.n = n2, !.first = n1 - k + 1, !.ref = r, !.read = TRUE] :
            k \in {top}, r \in {1, 2}}
        \cup {[NoPage EXCEPT !.n = n2, !.first = n1 + 1, !.read = TRUE]}

\* The content of the page displayed is fixed when it is first read.
ShapesNow ==
    IF site[page.cur].read THEN {site[page.cur]}
    ELSE Page2Shapes(site[1].n, site[page.cur].n)

\* Mutant of AfterContainers: with too few items the navigation starts
\* instead of the fallback.
AfterContainersNavigates(items) ==
    IF NeedsFallback(items) THEN "nav" ELSE "ex_validate"

\* Lines 522-532: after the container method, the fallback on the same
\* page or the validation.
AfterContainers(items) ==
    IF NeedsFallback(items) THEN "ex_fallback" ELSE "ex_validate"

\* Lines 512-519: the container count and, from 10 containers on, the
\* container method (whose own count, line 349, is not in a try).
ExtractContainers ==
    /\ pc = "ex_containers"
    /\ \/ Raise("count")
       \/ \E sh \in ShapesNow :
            \E failing \in FailingSets(page.loaded) :
                LET container_count == page.loaded
                    items == IF container_count >= CONTAINER_METHOD_MIN
                             THEN extract_from_asin_containers_universal(
                                      DomOf(sh, page.loaded), failing)
                             ELSE <<>>
                IN  /\ site' = [site EXCEPT ![page.cur] = sh]
                    /\ loc' = [loc EXCEPT !.items = items]
                    /\ hist' = [hist EXCEPT
                                  !.skipped =
                                      IF container_count >= CONTAINER_METHOD_MIN
                                      THEN Cardinality(failing) ELSE 0,
                                  !.failing =
                                      IF container_count >= CONTAINER_METHOD_MIN
                                      THEN failing ELSE {}]
                    /\ pc' = AfterContainers(items)
                    /\ UNCHANGED <<page, ret>>

\* Lines 522-529: the fallback, kept when it found strictly more.
ExtractFallback ==
    /\ pc = "ex_fallback"
    /\ \/ Raise("count")
       \/ \E failing \in FailingSets(2 * page.loaded) :
            \E dropped \in FailingSets(Len(ValidProductLinks(Dom, failing))) :
            LET fallback_items ==
                    extract_using_universal_selectors(Dom, failing, dropped)
            IN  /\ loc' = [loc EXCEPT
                             !.items = ChosenItems(@, fallback_items),
                             !.fallback = [ran |-> TRUE, items |-> fallback_items]]
                /\ hist' = [hist EXCEPT !.skipped = @ + Cardinality(failing)
                                                      + Cardinality(dropped)]
                /\ pc' = "ex_validate"
                /\ UNCHANGED <<page, site, ret>>

\* Lines 532-535, and 702-728 back in scrape_category.
ExtractValidate ==
    /\ pc = "ex_validate"
    /\ LET validated_items == validate_and_clean_items(loc.items)
       IN  /\ hist' = [hist EXCEPT !.raw[loc.batch] = loc.items]
           /\ IF loc.batch = 1
              THEN /\ loc' = [loc EXCEPT !.first_batch = validated_items,
                                         !.items = <<>>,
                                         !.fallback = NoFallback,
                                         !.tactic = IF ShouldPaginate(validated_items)
                                                    THEN 1 ELSE 0]
                   /\ pc' = IF ShouldPaginate(validated_items) THEN "nav"
                            ELSE "finish"
              ELSE /\ loc' = [loc EXCEPT !.second_batch = validated_items,
                                         !.items = <<>>,
                                         !.fallback = NoFallback]
                   /\ pc' = "finish"
    /\ UNCHANGED <<page, site, ret>>

\* A click of tactics 1-4 may do nothing to the page, or load the second
\* page, with its URL or under the URL displayed; the second page has no
\* next-page control.  Tactic 5 goes to the rewritten URL.
\* Whether the verification of lines 571-581 passes on page pg.
UrlConfirms(pg) == Contains(PG2, pg.url) \/ Contains(PAGE2, pg.url)
ContentConfirms(pg) == pg.loaded >= NAV_MIN_CONTAINERS

\* After tactic loc.tactic raised or failed verification: the next tactic,
\* or False to scrape_category.
NextTactic(why) ==
    /\ loc' = [loc EXCEPT !.tactic = IF @ = NUM_TACTICS THEN 0 ELSE @ + 1]
    /\ hist' = [hist EXCEPT !.nav = IF loc.tactic = NUM_TACTICS THEN "failed"
                                    ELSE @,
                            !.tried = Append(@, loc.tactic),
                            !.why = IF loc.tactic = NUM_TACTICS THEN "" ELSE why]
    /\ pc' = IF loc.tactic = NUM_TACTICS THEN AfterNavigation(FALSE) ELSE "nav"
    /\ UNCHANGED ret

\* Lines 562-585: one tactic of navigate_to_next_page, with its wait and
\* its verification.  The second page's size is fixed when a tactic is
\* first tried.
NavTactic ==
    /\ pc = "nav"
    /\ \E n2 \in (IF site[2].n = 0 THEN Page2Sizes ELSE {site[2].n}) :
        LET site2 == [site EXCEPT ![2].n = n2]
            effects == IF loc.tactic < NUM_TACTICS
                       THEN (IF page.cur = 2 THEN {page}
                             ELSE {page} \cup
                                  {[cur |-> 2, url |-> u, loaded |-> l] :
                                     u \in {page.url, NextPageUrl(page.url)},
                                     l \in {0, n2}})
                       ELSE {[cur |-> 2, url |-> RewrittenUrl(page.url), loaded |-> l] :
                               l \in {0, n2}}
        IN  /\ site' = site2
            /\ \/ \* the tactic itself raises
                  /\ page' = page
                  /\ NextTactic("raised")
               \/ \E pg \in effects :
                    /\ page' = pg
                    /\ \/ \* the DOM-ready wait raises
                          NextTactic("wait")
                       \/ \* the pause or the count of the verification raises
                          /\ ~UrlConfirms(pg)
                          /\ NextTactic("raised")
                       \/ \* verification fails
                          /\ ~UrlConfirms(pg) /\ ~ContentConfirms(pg)
                          /\ NextTactic("unverified")
                       \/ \* verification passes
                          /\ UrlConfirms(pg) \/ ContentConfirms(pg)
                          /\ hist' = [hist EXCEPT !.nav = "success",
                                                  !.tried = Append(@, loc.tactic),
                                                  !.why = ""]
                          /\ loc' = [loc EXCEPT !.tactic = 0]
                          /\ pc' = AfterNavigation(TRUE)
                          /\ UNCHANGED ret

\* Lines 717-721: the settle pause, then the second extraction.
SettlePage2 ==
    /\ pc = "settle2"
    /\ \/ Raise("wait_for_timeout")
       \/ /\ loc' = EnterExtract(loc, 2)
          /\ hist' = [hist EXCEPT !.tried = <<>>]
          /\ pc' = "sc_wait"
          /\ UNCHANGED <<page, site, ret>>

\* Lines 730-755: combine, deduplicate, cap and return.
Finish ==
    /\ pc = "finish"
    /\ ret' = CategoryResult(loc.category_url, loc.first_batch, loc.second_batch,
                             loc.initial_asin_count)
    /\ pc' = "done"
    /\ UNCHANGED <<page, site, loc, hist>>

Init ==
    /\ nrm = NrmIdle
    /\ vld = VldIdle
    /\ pc = "start"
    /\ page = [cur |-> 0, url |-> <<>>, loaded |-> 0]
    /\ site = <<NoPage, NoPage>>
    /\ loc \in {[LocInit EXCEPT !.category_url = BASE_URL \o path] :
                    path \in CategoryPaths}
    /\ ret = [outcome |-> "running", value |-> <<>>]
    /\ hist = HistInit

Next ==
    /\ UNCHANGED <<nrm, vld>>
    /\ \/ Goto
       \/ Reload
       \/ ScrollWait
       \/ ScrollIteration
       \/ ScrollFinal
       \/ ExtractContainers
       \/ ExtractFallback
       \/ ExtractValidate
       \/ NavTactic
       \/ SettlePage2
       \/ Finish

Spec == Init /\ [][Next]_vars

(***************************************************************************)
(* extract_products_on_page alone, on one page: the state at its entry for *)
(* the first page of a category, and its steps up to its return.           *)
(***************************************************************************)
PageSizes == {5, 9, 14, 15, 20}

\* A page with more containers than the container method reads.
LargePageSizes == {101}

InitPage ==
    /\ nrm = NrmIdle
    /\ vld = VldIdle
    /\ pc = "sc_wait"
    /\ \E n \in PageSizes \cup LargePageSizes, t \in Twins,
          badge \in BOOLEAN, star \in BOOLEAN :
          /\ n \in LargePageSizes => (t = 0 /\ badge /\ ~star)
          /\ site = <<[NoPage EXCEPT !.n = n, !.twin = t, !.badge = badge,
                                     !.star = star, !.read = TRUE],
                      NoPage>>
          /\ \E loaded \in {0, n} :
                \E path \in CategoryPaths :
                    /\ page = [cur |-> 1, url |-> BASE_URL \o path,
                               loaded |-> loaded]
                    /\ loc = [LocInit EXCEPT !.category_url = BASE_URL \o path,
                                             !.initial_asin_count = loaded]
    /\ ret = [outcome |-> "running", value |-> <<>>]
    /\ hist = HistInit

NextPage ==
    /\ UNCHANGED <<nrm, vld>>
    /\ \/ ScrollWait
       \/ ScrollIteration
       \/ ScrollFinal
       \/ ExtractContainers
       \/ ExtractFallback
       \/ ExtractValidate

SpecPage == InitPage /\ [][NextPage]_vars

(***************************************************************************)
(* Field extractors: extract_rating_from_container and                     *)
(* extract_price_from_container, one strategy at a time, on one container. *)
(* Besides the fields of Container, the container has, per selector of the *)
(* strategies, the texts of the elements the selector matches, in document *)
(* order: star (the inner text of the parent of each .a-icon-star-small),  *)
(* rating_class, price_whole, price_offscreen, price_class; and text, its  *)
(* own inner text.                                                         *)
(***************************************************************************)
OUT_OF == <<"o", "u", "t", " ", "o", "f">>
OUT_OF_5 == OUT_OF \o <<" ", "5">>

\* group(1) of r"(\d+\.?\d*)\s*out\s*of\s*5" matched at i, or <<>>.
RatingGroupAt(s, i) ==
    LET i1 == SkipWhile(s, i, DIGITS)
        i2 == IF i1 <= Len(s) /\ s[i1] = "." THEN i1 + 1 ELSE i1
        i3 == SkipWhile(s, i2, DIGITS)
        i4 == SkipWhile(s, i3, WS)
        i5 == SkipWhile(s, i4 + 3, WS)
        i6 == SkipWhile(s, i5 + 2, WS)
    IN  IF /\ i1 > i
           /\ StartsAt(s, i4, <<"o", "u", "t">>)
           /\ StartsAt(s, i5, <<"o", "f">>)
           /\ StartsAt(s, i6, <<"5">>)
        THEN SubSeq(s, i, i3 - 1)
        ELSE <<>>

\* Lines 229-233: re.search with IGNORECASE, and the value built from it.
RatingPattern(container_text) ==
    LET hits == {i \in 1..Len(container_text) :
                    RatingGroupAt(Lower(container_text), i) # <<>>}
    IN  IF hits = {} THEN <<>>
        ELSE RatingGroupAt(Lower(container_text), SetMin(hits))
                 \o <<" ">> \o OUT_OF_5 \o <<" ", "s", "t", "a", "r", "s">>

\* group(1) of r"(?:₹|Rs\.?\s*)([0-9,]+(?:\.[0-9]{2})?)" matched at i, or <<>>.
PriceGroupAt(s, i) ==
    LET rs == StartsAt(s, i, <<"R", "s">>)
        j1 == IF rs /\ StartsAt(s, i + 2, <<".">>) THEN i + 3 ELSE i + 2
        j == IF rs THEN SkipWhile(s, j1, WS) ELSE i + 1
        k == SkipWhile(s, j, DIGITS \cup {","})
        cents == /\ StartsAt(s, k, <<".">>)
                 /\ k + 2 <= Len(s)
                 /\ s[k + 1] \in DIGITS
                 /\ s[k + 2] \in DIGITS
    IN  IF (rs \/ s[i] = "₹") /\ k > j
        THEN SubSeq(s, j, IF cents THEN k + 2 ELSE k - 1)
        ELSE <<>>

\* Lines 262-267: re.search, and the value built from it.
PricePattern(container_text) ==
    LET hits == {i \in 1..Len(container_text) :
                    PriceGroupAt(container_text, i) # <<>>}
    IN  IF hits = {} THEN <<>>
        ELSE <<"₹">> \o PriceGroupAt(container_text, SetMin(hits))

\* The first of the first three texts that is among those passing the
\* test of its strategy, or <<>>.
FirstOfThree(texts, passing) ==
    LET n == IF Len(texts) < 3 THEN Len(texts) ELSE 3
        ok == {i \in 1..n : texts[i] \in passing}
    IN  IF ok = {} THEN <<>> ELSE clean_text(texts[SetMin(ok)])

\* Lines 208-233: what rating strategy k returns, or <<>> when it returns
\* nothing and the loop goes on.
RatingStrategyValue(k, container) ==
    LET AriaOk(t) == ~Falsy(t) /\ Contains(OUT_OF_5, t)
        StarOk(t) == /\ ~Falsy(clean_text(t))
                     /\ \/ Contains(OUT_OF, clean_text(t))
                        \/ Contains(<<"r", "a", "t", "i", "n", "g">>,
                                    Lower(clean_text(t)))
        ClassOk(t) == /\ ~Falsy(clean_text(t))
                      /\ \/ Contains(OUT_OF, clean_text(t))
                         \/ Contains(<<"s", "t", "a", "r">>, Lower(clean_text(t)))
        links == IF container.rating = Absent THEN <<>> ELSE <<container.rating>>
        InRange(texts, Ok(_)) == {texts[i] : i \in {j \in DOMAIN texts : Ok(texts[j])}}
    IN  CASE k = 1 -> FirstOfThree(links, InRange(links, AriaOk))
          [] k = 2 -> IF container.star # <<>> /\ StarOk(container.star[1])
                      THEN clean_text(container.star[1]) ELSE <<>>
          [] k = 3 -> FirstOfThree(container.rating_class,
                                   InRange(container.rating_class, ClassOk))
          [] OTHER -> RatingPattern(clean_text(container.text))

NUM_RATING_STRATEGIES == 4
NUM_PRICE_STRATEGIES == 5

\* Lines 258-274: what price strategy k returns, or <<>>.
PriceStrategyValue(k, container) ==
    LET elements == CASE k = 1 -> IF container.price = Absent THEN <<>>
                                  ELSE <<container.price>>
                      [] k = 2 -> container.price_whole
                      [] k = 3 -> container.price_offscreen
                      [] OTHER -> container.price_class
        price_text == clean_text(elements[1])
    IN  IF k = NUM_PRICE_STRATEGIES THEN PricePattern(clean_text(container.text))
        ELSE IF /\ elements # <<>>
                /\ ~Falsy(price_text)
                /\ \/ Contains(<<"₹">>, price_text)
                   \/ Contains(<<"R", "s">>, price_text)
             THEN price_text
             ELSE <<>>

\* Mutant of EndsChain: a value does not end the loop over the strategies.
EndsChainNever(outcome) == FALSE

\* The return statements inside the loops: a strategy's value ends the call.
EndsChain(outcome) == outcome = "value"

\* The containers of the harness: where the rating is found (the rating
\* link, the star icon's parent, the first or second rating-class element,
\* the running text, nowhere) and where the price is found (the price span,
\* .a-price-whole, .a-price .a-offscreen, a price-class element, the running
\* text, a price span in another currency, nowhere).
RatingPlaces == {"link", "star", "class", "class2", "text", "none"}
PricePlaces == {"span", "whole", "offscreen", "class", "text", "foreign", "none"}

FieldContainer(r, q) ==
    LET rating_text == RatingLabel(1)
        price_text == IF q = "offscreen" THEN <<"₹", "4", "9", "9">>
                      ELSE <<"R", "s", " ", "1", ",", "2", "3", "4", ".", "5", "0">>
        base == Container(1, 1, 1)
    IN  [asin |-> base.asin,
         anchors |-> IF r = "link" THEN base.anchors
                     ELSE SubSeq(base.anchors, 1, 2),
         badge |-> base.badge,
         rating |-> IF r = "link" THEN rating_text ELSE Absent,
         star |-> IF r = "star" THEN <<rating_text>> ELSE <<>>,
         rating_class |-> CASE r = "class" -> <<<<"4", ".", "1", " ", "S", "t", "a", "r", "s">>>>
                            [] r = "class2" -> <<<<"(", "1", "2", ")">>,
                                                 <<"4", ".", "1", " ", "S", "t", "a", "r", "s">>>>
                            [] OTHER -> <<>>,
         price |-> CASE q = "span" -> price_text
                     [] q = "foreign" -> <<"$", "1", "2">>
                     [] OTHER -> Absent,
         price_whole |-> IF q = "whole" THEN <<price_text>> ELSE <<>>,
         price_offscreen |-> IF q = "offscreen" THEN <<price_text>> ELSE <<>>,
         price_class |-> CASE q \in {"span", "whole", "offscreen", "class"} -> <<price_text>>
                           [] q = "foreign" -> <<<<"$", "1", "2">>>>
                           [] OTHER -> <<>>,
         text |-> ProductName(1) \o <<"\n">>
                    \o (IF r \in {"star", "text"} THEN rating_text
                        ELSE IF r \in {"class", "class2"}
                             THEN <<"4", ".", "1", " ", "S", "t", "a", "r", "s">>
                             ELSE <<>>)
                    \o <<"\n">>
                    \o (CASE q \in {"span", "whole", "offscreen", "class", "text"} -> price_text
                          [] q = "foreign" -> <<"$", "1", "2">>
                          [] OTHER -> <<>>)]

FieldLocals ==
    [strategy |-> 1, rating |-> Absent, price |-> Absent, candidate |-> <<>>]

InitField ==
    /\ nrm = NrmIdle
    /\ vld = VldIdle
    /\ pc = "fld_rating"
    /\ page = [cur |-> 0, url |-> <<>>, loaded |-> 0]
    /\ \E r \in RatingPlaces, q \in PricePlaces : site = FieldContainer(r, q)
    /\ loc = FieldLocals
    /\ ret = [outcome |-> "running", value |-> <<>>]
    /\ hist = [rating |-> <<>>, price |-> <<>>]

\* One turn of a strategy loop with the given outcome and value: the return
\* of the value, the next strategy, or the return of "" after the last one.
StrategyTurn(field, total, after, outcome, value) ==
    /\ hist' = [hist EXCEPT ![field] =
                   Append(@, [k |-> loc.strategy, out |-> outcome, value |-> value])]
    /\ IF EndsChain(outcome)
       THEN /\ loc' = [loc EXCEPT ![field] = value, !.strategy = 1]
            /\ pc' = after
       ELSE IF loc.strategy = total
       THEN /\ loc' = [loc EXCEPT ![field] = <<>>, !.strategy = 1]
            /\ pc' = after
       ELSE /\ loc' = [loc EXCEPT !.strategy = @ + 1]
            /\ UNCHANGED pc
    /\ UNCHANGED <<page, site, ret>>

\* Lines 205-238: one strategy of extract_rating_from_container; a call on
\* the container that raises is caught and the loop continues.
RatingStrategy ==
    /\ pc = "fld_rating"
    /\ LET value == RatingStrategyValue(loc.strategy, site)
       IN  \/ StrategyTurn("rating", NUM_RATING_STRATEGIES, "fld_price",
                           "raised", <<>>)
           \/ StrategyTurn("rating", NUM_RATING_STRATEGIES, "fld_price",
                           IF value = <<>> THEN "nothing" ELSE "value", value)

\* Lines 256-276: one strategy of extract_price_from_container.
PriceStrategy ==
    /\ pc = "fld_price"
    /\ LET value == PriceStrategyValue(loc.strategy, site)
       IN  \/ StrategyTurn("price", NUM_PRICE_STRATEGIES, "fld_candidate",
                           "raised", <<>>)
           \/ StrategyTurn("price", NUM_PRICE_STRATEGIES, "fld_candidate",
                           IF value = <<>> THEN "nothing" ELSE "value", value)

\* Lines 354-412: the candidate the container-based extractor emits for the
\* same container, or none when one of its reads raises.
ReadContainer ==
    /\ pc = "fld_candidate"
    /\ \E candidate \in {<<>>, ContainerCandidate(site)} :
            loc' = [loc EXCEPT !.candidate = candidate]
    /\ pc' = "fld_done"
    /\ UNCHANGED <<page, site, ret, hist>>

NextField ==
    /\ UNCHANGED <<nrm, vld>>
    /\ \/ RatingStrategy
       \/ PriceStrategy
       \/ ReadContainer

SpecField == InitField /\ [][NextField]_vars

(***************************************************************************)
(* The batch loop of main, lines 796-848, over a category source: the      *)
(* {name, url} pairs get_categories returned, which it does not check for  *)
(* repeated names.  loc.result is result["bestsellers"], a dict from names *)
(* to the data scrape_category returned.                                   *)
(***************************************************************************)
MaxCategories == 3

CategoryNames == {<<"B", "o", "o", "k", "s">>, <<"T", "o", "y", "s">>}

\* The sources: every list of up to MaxCategories names, each category with
\* a URL of its own.
CategorySources ==
    LET names == UNION {[1..n -> CategoryNames] : n \in 1..MaxCategories}
    IN  {[i \in DOMAIN ns |->
             [name |-> ns[i], url |-> BASE_URL \o <<"/", "c">> \o Decimal(i)]] :
         ns \in names}

\* What scrape_category may return for a category: the minimal structure of
\* its except clause, or a result with the items of one page.
ScrapeOutcomes(category_url) ==
    {CategoryFailure("goto", category_url).value,
     CategoryResult(category_url,
                    validate_and_clean_items(
                        ContainerCandidate(Container(1, 1, 1))
                            \o ContainerCandidate(Container(2, 1, 2))),
                    <<>>, 2).value}

\* dict[key] = value.
DictSet(d, key, value) ==
    [k \in DOMAIN d \cup {key} |-> IF k = key THEN value ELSE d[k]]

InitBatch ==
    /\ nrm = NrmIdle
    /\ vld = VldIdle
    /\ pc = "batch_scrape"
    /\ page = [cur |-> 0, url |-> <<>>, loaded |-> 0]
    /\ site = <<NoPage, NoPage>>
    /\ \E categories \in CategorySources :
          loc = [categories |-> categories, idx |-> 1, result |-> <<>>,
                 total_items |-> 0, successful_categories |-> 0,
                 failed_categories |-> 0]
    /\ ret = [outcome |-> "running", value |-> <<>>]
    /\ hist = [scraped |-> <<>>, returned |-> <<>>]

\* Lines 805-817: the category is scraped, its data is stored under its
\* name and counted.
BatchScrape ==
    /\ pc = "batch_scrape"
    /\ LET cat == loc.categories[loc.idx]
       IN  \E data \in ScrapeOutcomes(cat.url) :
             LET items_count == Len(data.category_items)
             IN  /\ loc' = [loc EXCEPT
                              !.result = DictSet(@, cat.name, data),
                              !.total_items = @ + items_count,
                              !.successful_categories =
                                  IF items_count > 0 THEN @ + 1 ELSE @,
                              !.failed_categories =
                                  IF items_count > 0 THEN @ ELSE @ + 1]
                 /\ hist' = [scraped |-> Append(hist.scraped, loc.idx),
                             returned |-> Append(hist.returned, data)]
    /\ pc' = "batch_report"
    /\ UNCHANGED <<page, site, ret>>

\* Lines 820-848: the report and the pause; when the pause raises, the
\* except clause counts a failed category.  Then the next category.
BatchReport ==
    /\ pc = "batch_report"
    /\ \E raised \in BOOLEAN :
          loc' = [loc EXCEPT !.idx = @ + 1,
                             !.failed_categories = IF raised THEN @ + 1 ELSE @]
    /\ pc' = IF loc.idx = Len(loc.categories) THEN "batch_done" ELSE "batch_scrape"
    /\ UNCHANGED <<page, site, ret, hist>>

NextBatch ==
    /\ UNCHANGED <<nrm, vld>>
    /\ \/ BatchScrape
       \/ BatchReport

SpecBatch == InitBatch /\ [][NextBatch]_vars

(***************************************************************************)
(* extract_using_universal_selectors alone, on one page whose containers   *)
(* are all in the DOM.                                                     *)
(***************************************************************************)
FallbackPageSizes == {0, 3, 9, 51, 60}

InitFallback ==
    /\ nrm = NrmIdle
    /\ vld = VldIdle
    /\ pc = "fb_call"
    /\ \E n \in FallbackPageSizes, t \in Twins,
          badge \in BOOLEAN, star \in BOOLEAN, priced \in BOOLEAN :
          /\ site = <<[NoPage EXCEPT !.n = n, !.twin = t, !.badge = badge,
                                     !.star = star, !.priced = priced,
                                     !.read = TRUE],
                      NoPage>>
          /\ page = [cur |-> 1, url |-> BASE_URL, loaded |-> n]
    /\ loc = LocInit
    /\ ret = [outcome |-> "running", value |-> <<>>]
    /\ hist = HistInit

\* Lines 421-498: one call, which returns its items or raises at the count
\* of line 434.
CallFallback ==
    /\ pc = "fb_call"
    /\ \/ /\ ret' = [outcome |-> "raised", value |-> "count"]
          /\ pc' = "fb_done"
          /\ UNCHANGED <<loc, hist>>
       \/ \E failing \in FailingSets(2 * page.loaded) :
            \E dropped \in FailingSets(Len(ValidProductLinks(Dom, failing))) :
                /\ loc' = [loc EXCEPT !.fallback =
                              [ran |-> TRUE,
                               items |-> extract_using_universal_selectors(
                                             Dom, failing, dropped)]]
                /\ hist' = [hist EXCEPT !.skipped = Cardinality(failing)
                                                      + Cardinality(dropped)]
                /\ pc' = "fb_done"
                /\ UNCHANGED ret
    /\ UNCHANGED <<page, site>>

NextFallback ==
    /\ UNCHANGED <<nrm, vld>>
    /\ CallFallback

SpecFallback == InitFallback /\ [][NextFallback]_vars

(***************************************************************************)
(* navigate_by_url_modification alone, on one current URL: a category path *)
(* with up to MaxParams query parameters.                                  *)
(***************************************************************************)
MaxParams == 3

QueryParams ==
    {PG1, <<"p", "g", "=", "3">>, <<"p", "g", "=", "1", "0">>,
     <<"r", "e", "f", "=", "7">>}

CurrentUrls ==
    LET lists == UNION {[1..n -> QueryParams] : n \in 0..MaxParams}
    IN  {BASE_URL \o <<"/", "b">>
            \o (IF ps = <<>> THEN <<>> ELSE <<"?">> \o Join(<<"&">>, ps)) :
         ps \in lists}

InitRewrite ==
    /\ nrm = NrmIdle
    /\ vld = VldIdle
    /\ pc = "rw_call"
    /\ \E u \in CurrentUrls : page = [cur |-> 1, url |-> u, loaded |-> 0]
    /\ site = <<NoPage, NoPage>>
    /\ loc = LocInit
    /\ ret = [outcome |-> "running", value |-> <<>>]
    /\ hist = [from |-> <<>>]

\* Lines 591-609: the rewrite and the goto, which loads the target or raises.
CallRewrite ==
    /\ pc = "rw_call"
    /\ hist' = [from |-> page.url]
    /\ \/ /\ page' = [page EXCEPT !.cur = 2, !.url = RewrittenUrl(page.url)]
          /\ UNCHANGED ret
       \/ /\ ret' = [outcome |-> "raised", value |-> "goto"]
          /\ UNCHANGED page
    /\ pc' = "rw_done"
    /\ UNCHANGED <<site, loc>>

NextRewrite ==
    /\ UNCHANGED <<nrm, vld>>
    /\ CallRewrite

SpecRewrite == InitRewrite /\ [][NextRewrite]_vars

(***************************************************************************)
(* Normalizer harness: one call of one normalizer on one input.            *)
(***************************************************************************)
MaxLen == 4
MaxTail == 2

RECURSIVE StringsUpTo(_, _)
StringsUpTo(alpha, n) ==
    IF n = 0 THEN {<<>>}
    ELSE LET shorter == StringsUpTo(alpha, n - 1)
         IN  shorter \cup {Append(s, c) : s \in shorter, c \in alpha}

TextAlphabet == {"a", " ", "\n", "7", "#"}

\* Short texts, and texts around a truncation limit: a long word, then a tail.
ShortTexts == StringsUpTo(TextAlphabet, MaxLen)

LongTexts(limit) ==
    {Rep("a", n) \o t : n \in (limit - 2)..(limit + 1),
                        t \in StringsUpTo({"a", " "}, MaxTail)}

\* Links: every four-character string over "/", "d", "p" in a small frame.
LinkTexts ==
    {pre \o mid \o post :
        pre \in StringsUpTo({"x"}, 1),
        mid \in StringsUpTo({"/", "d", "p"}, 4),
        post \in StringsUpTo({"x"}, 1)}

NormInputs(fn) ==
    {Absent} \cup
    CASE fn = "clean_product_name" -> ShortTexts \cup LongTexts(NAME_LIMIT)
      [] fn = "clean_rating" -> ShortTexts \cup LongTexts(RATING_LIMIT)
      [] fn = "validate_product_link" -> LinkTexts
      [] OTHER -> ShortTexts

CallCleanText ==
    /\ nrm.fn = "none"
    /\ \E s \in NormInputs("clean_text") :
            nrm' = [fn |-> "clean_text", inp |-> s, out |-> clean_text(s)]

CallCleanRank ==
    /\ nrm.fn = "none"
    /\ \E s \in NormInputs("clean_rank") :
            nrm' = [fn |-> "clean_rank", inp |-> s, out |-> clean_rank(s)]

CallCleanProductName ==
    /\ nrm.fn = "none"
    /\ \E s \in NormInputs("clean_product_name") :
            nrm' = [fn |-> "clean_product_name", inp |-> s,
                    out |-> clean_product_name(s)]

CallValidateProductLink ==
    /\ nrm.fn = "none"
    /\ \E s \in NormInputs("validate_product_link") :
            nrm' = [fn |-> "validate_product_link", inp |-> s,
                    out |-> validate_product_link(s)]

CallCleanRating ==
    /\ nrm.fn = "none"
    /\ \E s \in NormInputs("clean_rating") :
            nrm' = [fn |-> "clean_rating", inp |-> s, out |-> clean_rating(s)]

CallCleanPrice ==
    /\ nrm.fn = "none"
    /\ \E s \in NormInputs("clean_price") :
            nrm' = [fn |-> "clean_price", inp |-> s, out |-> clean_price(s)]

InitNorm == nrm = NrmIdle /\ vld = VldIdle /\ InitScrapeIdle

NextNorm ==
    /\ UNCHANGED <<vld, scrapeVars>>
    /\ \/ CallCleanText
       \/ CallCleanRank
       \/ CallCleanProductName
       \/ CallValidateProductLink
       \/ CallCleanRating
       \/ CallCleanPrice

SpecNorm == InitNorm /\ [][NextNorm]_vars

(***************************************************************************)
(* Validator harness: validate_and_clean_items on one list of candidates.  *)
(***************************************************************************)
MaxCands == 2

\* Names around the minimum length, before and after cleaning.
HarnessNames ==
    {Absent, <<>>, Rep("a", MIN_NAME_LEN), Rep("a", MIN_NAME_LEN + 1),
     Rep("b", 4) \o Rep(" ", 3) \o Rep("b", MIN_NAME_LEN - 5),
     Rep("c", 5) \o Rep(" ", 2) \o Rep("c", MIN_NAME_LEN - 5)}

HarnessLinks ==
    {Absent, <<>>, DP \o <<"1">>, <<"x">> \o DP \o <<"2">>, <<"/", "x", "/", "1">>}

HarnessCandidates ==
    {[rank |-> <<"#", "1">>, name |-> n, link |-> l, rating |-> <<>>,
      price |-> Absent, asin |-> <<"A">>] : n \in HarnessNames, l \in HarnessLinks}

RECURSIVE ListsUpTo(_, _)
ListsUpTo(S, n) ==
    IF n = 0 THEN {<<>>}
    ELSE LET shorter == ListsUpTo(S, n - 1)
         IN  shorter \cup {Append(l, x) : l \in shorter, x \in S}

CallValidate ==
    /\ vld.stage = "input"
    /\ vld' = [vld EXCEPT !.stage = "validated",
                          !.out = validate_and_clean_items(vld.items)]
    /\ UNCHANGED <<nrm, scrapeVars>>

InitValidate ==
    /\ nrm = NrmIdle
    /\ InitScrapeIdle
    /\ vld \in {[stage |-> "input", items |-> l, out |-> <<>>] :
                    l \in ListsUpTo(HarnessCandidates, MaxCands)}

NextValidate == CallValidate

SpecValidate == InitValidate /\ [][NextValidate]_vars

(***************************************************************************)
(* Normalizer properties                                                   *)
(***************************************************************************)
Chars == TextAlphabet \cup {"/", "d", "p", "x"} \cup WS \cup DIGITS

IsString(s) == s \in Seq(Chars)

Apply(fn, s) ==
    CASE fn = "clean_text" -> clean_text(s)
      [] fn = "clean_rank" -> clean_rank(s)
      [] fn = "clean_product_name" -> clean_product_name(s)
      [] fn = "validate_product_link" -> validate_product_link(s)
      [] fn = "clean_rating" -> clean_rating(s)
      [] fn = "clean_price" -> clean_price(s)

\* Positions of the non-whitespace characters of s, and the k-th of them.
NonWsAt(s) == {i \in 1..Len(s) : s[i] \notin WS}
NthNonWs(s, k) ==
    CHOOSE p \in NonWsAt(s) : Cardinality({q \in NonWsAt(s) : q <= p}) = k

\* out is inp with every whitespace run collapsed to one space, ends trimmed:
\* the same non-whitespace characters in the same order, one space exactly
\* where inp has whitespace between two of them, and nothing else.
CollapsedTrimmed(inp, out) ==
    LET n == Cardinality(NonWsAt(inp))
    IN  /\ Cardinality(NonWsAt(out)) = n
        /\ \A k \in 1..n : out[NthNonWs(out, k)] = inp[NthNonWs(inp, k)]
        /\ \A i \in 1..Len(out) : out[i] \in WS => out[i] = " "
        /\ n = 0 => out = <<>>
        /\ n > 0 => NthNonWs(out, 1) = 1 /\ NthNonWs(out, n) = Len(out)
        /\ \A k \in 1..(n - 1) :
              NthNonWs(out, k + 1) - NthNonWs(out, k) =
                  IF NthNonWs(inp, k + 1) - NthNonWs(inp, k) = 1 THEN 1 ELSE 2

\* "#" and the first run of digits of inp, or "" when inp has no digit.
HashFirstDigits(inp, out) ==
    LET ds == {i \in 1..Len(inp) : inp[i] \in DIGITS}
    IN  IF ds = {} THEN out = <<>>
        ELSE LET b == SetMin(ds)
             IN  \E e \in b..Len(inp) :
                    /\ \A j \in b..e : inp[j] \in DIGITS
                    /\ e = Len(inp) \/ inp[e + 1] \notin DIGITS
                    /\ out = <<"#">> \o SubSeq(inp, b, e)

HasProductPath(s) ==
    \E i \in 1..(Len(s) - 3) :
        s[i] = "/" /\ s[i + 1] = "d" /\ s[i + 2] = "p" /\ s[i + 3] = "/"

\* C5: clean_product_name and clean_rating are idempotent for every input,
\* also when the whitespace-normalized input is longer than the truncation
\* limit: f(f(x)) = f(x).
C5_TruncatingCleanersIdempotent ==
    nrm.fn \in {"clean_product_name", "clean_rating"} =>
        Apply(nrm.fn, nrm.out) = nrm.out

\* C6: clean_text, clean_rank, validate_product_link and clean_price return a
\* string for every string or absent input and are idempotent; clean_text
\* (and clean_price) return the input whitespace-collapsed and trimmed,
\* clean_rank returns "#" and the first run of digits or "", and
\* validate_product_link returns its input if it contains "/dp/", else "".
C6_NormalizerTotalIdempotent ==
    nrm.fn \in {"clean_text", "clean_rank", "validate_product_link", "clean_price"} =>
        LET inp == IF nrm.inp = Absent THEN <<>> ELSE nrm.inp
        IN  /\ IsString(nrm.out)
            /\ Apply(nrm.fn, nrm.out) = nrm.out
            /\ nrm.fn \in {"clean_text", "clean_price"} =>
                    CollapsedTrimmed(inp, nrm.out)
            /\ nrm.fn = "clean_rank" => HashFirstDigits(inp, nrm.out)
            /\ nrm.fn = "validate_product_link" =>
                    nrm.out = IF HasProductPath(inp) THEN inp ELSE <<>>

\* A rank text with other text before its first digit run has been cleaned.
C6_Witness ==
    /\ nrm.fn = "clean_rank"
    /\ nrm.inp # Absent
    /\ Len(nrm.inp) >= 3
    /\ nrm.inp[1] \notin DIGITS \cup {"#"}
    /\ Len(nrm.out) >= 2

(***************************************************************************)
(* Intra-page validator properties                                         *)
(***************************************************************************)
\* A candidate the validator has to keep: name and link present, the link
\* with the product-path marker, the cleaned name longer than 10.
ValidCandidate(c) ==
    /\ c.name # Absent /\ c.name # <<>>
    /\ c.link # Absent /\ c.link # <<>>
    /\ HasProductPath(c.link)
    /\ Len(clean_text(c.name)) > 10

\* The k-th smallest element of a set of numbers.
NthOf(S, k) == CHOOSE p \in S : Cardinality({q \in S : q <= p}) = k

\* C7: every item the intra-page validator emits has a non-empty name of
\* cleaned length above 10 and a non-empty link containing "/dp/"; no two
\* emitted items share a link; and the emitted items are, in input order,
\* the first valid candidate of each link.
C7_ValidatorEmitsValidUniqueFirst ==
    vld.stage = "validated" =>
        LET in == vld.items
            out == vld.out
            valid == {j \in 1..Len(in) : ValidCandidate(in[j])}
            first == {j \in valid :
                        \A j2 \in valid : j2 < j => in[j2].link # in[j].link}
        IN  /\ \A i \in 1..Len(out) :
                  /\ out[i].name # <<>>
                  /\ Len(out[i].name) > 10
                  /\ Len(clean_text(out[i].name)) > 10
                  /\ out[i].link # <<>>
                  /\ HasProductPath(out[i].link)
            /\ \A i, j \in 1..Len(out) : i # j => out[i].link # out[j].link
            /\ Len(out) = Cardinality(first)
            /\ \A i \in 1..Len(out) :
                  /\ out[i].link = in[NthOf(first, i)].link
                  /\ out[i].name = clean_text(in[NthOf(first, i)].name)

\* Two valid candidates with one link and different names were validated,
\* and one item came out.
C7_Witness ==
    /\ vld.stage = "validated"
    /\ \E i, j \in 1..Len(vld.items) :
          /\ i < j
          /\ ValidCandidate(vld.items[i]) /\ ValidCandidate(vld.items[j])
          /\ vld.items[i].link = vld.items[j].link
          /\ vld.items[i].name # vld.items[j].name
    /\ Len(vld.out) = 1

(***************************************************************************)
(* Properties of scrape_category, under Spec.                              *)
(***************************************************************************)
Returned == pc = "done" /\ ret.outcome = "returned"

\* The raw candidates of batch b, each with its data-asin ("" when the
\* extractor read none) and the item the validator makes of it.
RawTagged(b) ==
    [i \in DOMAIN hist.raw[b] |->
        [asin |-> Get(hist.raw[b][i], "asin", <<>>),
         item |-> CleanedItem(hist.raw[b][i])]]

\* The data-asin of the raw candidate, among those tagged in t, that item
\* was made of.
AsinIn(t, item) ==
    LET from == {i \in DOMAIN t : t[i].item = item}
    IN  IF from = {} THEN <<>> ELSE t[SetMin(from)].asin

\* C1: in the result returned, of any two raw candidates of the category
\* (of one page or of both) that carry the same non-empty data-asin, at most
\* one appears in category_items, whatever their links are.
C1_OneItemPerAsin ==
    Returned =>
        LET items == ret.value.category_items
            tagged == RawTagged(1) \o RawTagged(2)
            shown == {i \in DOMAIN tagged :
                        \E k \in DOMAIN items : items[k] = tagged[i].item}
        IN  \A i, j \in shown :
                (tagged[i].asin # <<>> /\ tagged[i].asin = tagged[j].asin)
                    => tagged[i].item = tagged[j].item

\* C2: in every result returned, no two items of category_items have the
\* same link.
C2_LinksDistinct ==
    Returned =>
        LET items == ret.value.category_items
        IN  \A i, j \in DOMAIN items : i < j => items[i].link # items[j].link

\* A result whose first page lists one product twice under one link and
\* whose second page lists products of the first under the same links.
C2_Witness ==
    /\ Returned
    /\ hist.boundary = ""
    /\ page.cur = 2
    /\ site[1].twin = 1
    /\ site[2].read /\ site[2].ref = 1 /\ site[2].first <= site[1].n
    /\ Len(hist.raw[2]) > 0
    /\ Len(ret.value.category_items) < ret.value.extraction_stats.total_before_dedup
    /\ Len(ret.value.category_items) > Len(loc.first_batch)

\* C3: every result returned, on the normal path and on the failure path,
\* has at most 100 items, and final_unique_items is their number.
C3_AtMostHundredCounted ==
    Returned =>
        /\ Len(ret.value.category_items) <= 100
        /\ ret.value.extraction_stats.final_unique_items
               = Len(ret.value.category_items)

\* A result of the normal path for which more than 100 unique items were
\* found.
C3_Witness ==
    /\ Returned
    /\ hist.boundary = ""
    /\ Len(deduplicate_products(loc.first_batch \o loc.second_batch)) > 100
    /\ Len(ret.value.category_items) = 100

\* C4: whatever page-handle call fails, and wherever, no exception leaves
\* scrape_category: it returns a result, and when a failure reached the
\* category boundary the result has no items and the error string in
\* extraction_stats.
C4_FailuresReturnResult ==
    /\ ret.outcome # "raised"
    /\ pc = "done" => ret.outcome = "returned"
    /\ hist.boundary # "" =>
          /\ pc = "done"
          /\ ret.outcome = "returned"
          /\ ret.value.category_items = <<>>
          /\ "error" \in DOMAIN ret.value.extraction_stats
          /\ ret.value.extraction_stats.error = hist.boundary
          /\ ret.value.category_link = loc.category_url

\* A count that fails during the extraction of page 2, after page 1 gave
\* its items.
C4_Witness ==
    /\ Returned
    /\ hist.boundary = "count"
    /\ loc.batch = 2
    /\ page.cur = 2
    /\ Len(loc.first_batch) >= 15

\* C8: a pagination tactic is executed and page 2 is extracted only if
\* page 1 gave at least 15 validated items; with fewer, nothing is clicked
\* and nothing navigated to after the extraction of page 1, and the result
\* has page2_items = 0.
C8_PaginationNeedsFifteen ==
    Len(loc.first_batch) < 15 =>
        /\ pc \notin {"nav", "settle2"}
        /\ loc.tactic = 0
        /\ hist.nav = "none"
        /\ loc.batch = 1
        /\ hist.raw[2] = <<>>
        /\ loc.second_batch = <<>>
        /\ page.cur <= 1
        /\ page.cur = 1 => page.url = loc.category_url
        /\ Returned => ret.value.extraction_stats.page2_items = 0

\* A result for a first page of which 15 candidates were extracted and 14
\* validated.
C8_Witness ==
    /\ Returned
    /\ hist.boundary = ""
    /\ Len(hist.raw[1]) = 15
    /\ Len(loc.first_batch) = 14
    /\ ret.value.extraction_stats.page1_items = 14

\* C9: when each of the five tactics raised or failed verification,
\* navigate_to_next_page returns False and raises nothing, page 2 is not
\* extracted, and the result has page2_items = 0, no error field, and the
\* deduplicated items of page 1 as category_items.
C9_AllTacticsFail ==
    hist.nav = "failed" =>
        /\ pc \in {"finish", "done"}
        /\ hist.boundary = ""
        /\ loc.batch = 1
        /\ hist.raw[2] = <<>>
        /\ loc.second_batch = <<>>
        /\ pc = "done" =>
              /\ ret.outcome = "returned"
              /\ ret.value.extraction_stats.page2_items = 0
              /\ "error" \notin DOMAIN ret.value.extraction_stats
              /\ ret.value.category_items = deduplicate_products(loc.first_batch)

\* A result after five failed tactics of which one had loaded the second
\* page, empty, under the URL of the first.
C9_Witness ==
    /\ Returned
    /\ hist.nav = "failed"
    /\ page.cur = 2
    /\ page.loaded = 0
    /\ Len(ret.value.category_items) >= 15

\* C10: when page 1 gives m validated items and page 2 gives n, exactly k of
\* the page-2 items come from containers whose data-asin is also that of a
\* page-1 item, and nothing else is duplicated, then total_before_dedup is
\* m + n and category_items has min(100, m + n - k) items.
C10_OverlapRemoved ==
    (Returned /\ hist.boundary = "") =>
        LET t1 == RawTagged(1)
            t2 == RawTagged(2)
            m == Len(loc.first_batch)
            n == Len(loc.second_batch)
            asin1 == [i \in 1..m |-> AsinIn(t1, loc.first_batch[i])]
            asin2 == [j \in 1..n |-> AsinIn(t2, loc.second_batch[j])]
            k == Cardinality({j \in 1..n : \E i \in 1..m : asin2[j] = asin1[i]})
            distinct(t) == \A i, j \in DOMAIN t :
                               i # j => /\ t[i].asin # <<>>
                                        /\ t[i].asin # t[j].asin
                                        /\ t[i].item.link # t[j].item.link
            no_other == /\ distinct(t1)
                        /\ distinct(t2)
                        /\ \A j \in 1..n, i \in 1..m :
                              asin2[j] # asin1[i]
                                  => loc.second_batch[j].link # loc.first_batch[i].link
            expected == IF m + n - k < 100 THEN m + n - k ELSE 100
        IN  no_other =>
                /\ ret.value.extraction_stats.total_before_dedup = m + n
                /\ Len(ret.value.category_items) = expected

(***************************************************************************)
(* Properties of extract_products_on_page, under SpecPage.                 *)
(***************************************************************************)
\* What C11 says of one step of extract_products_on_page.
FallbackRuleStep ==
    /\ (pc = "ex_containers" /\ pc' # "done") =>
          /\ pc' \in {"ex_fallback", "ex_validate"}
          /\ ((pc' = "ex_fallback") <=> (Len(loc'.items) < 15))
          /\ (page.loaded < 10 => loc'.items = <<>>)
    /\ (pc = "ex_fallback" /\ pc' # "done") =>
          /\ pc' = "ex_validate"
          /\ loc'.fallback.ran
          /\ loc'.items = IF Len(loc'.fallback.items) > Len(loc.items)
                          THEN loc'.fallback.items ELSE loc.items
    /\ pc = "ex_validate" =>
          /\ hist'.raw[loc.batch] = loc.items
          /\ (loc.batch = 1 =>
                loc'.first_batch = validate_and_clean_items(loc.items))

\* C11: the fallback runs exactly when the container method gave fewer than
\* 15 candidates (none when it was not run); its candidates replace the
\* container method's exactly when they are strictly more; the candidates
\* chosen are the ones validated.
C11_FallbackRule ==
    /\ [](pc = "ex_fallback" => (Len(loc.items) < 15 /\ ~loc.fallback.ran))
    /\ []((pc = "ex_validate" /\ ~loc.fallback.ran) => Len(loc.items) >= 15)
    /\ [][FallbackRuleStep]_vars

\* The fallback has run, has found as many candidates as the container
\* method, 14, and the container method's are the ones kept.
C11_Witness ==
    /\ pc = "ex_validate"
    /\ loc.fallback.ran
    /\ Len(loc.fallback.items) = 14
    /\ Len(loc.items) = 14
    /\ loc.items # loc.fallback.items

\* The name anchor of a container of the site: the second of its anchors.
TitleAnchor(container) == container.anchors[2]

\* extract_products_on_page has returned its items for a page whose item
\* containers were all in the DOM, with no read skipped for a failure.
PageExtracted ==
    /\ pc \in {"nav", "finish"}
    /\ page.loaded = site[1].n
    /\ hist.skipped = 0

\* The preconditions of C12 on the page: exactly 5 containers, each with a
\* name anchor of more than 15 characters whose link has "/dp/", a rating
\* and a price, the links pairwise different.
FiveContainers ==
    LET containers == ShapedPage(site[1])
    IN  /\ site[1].n = 5
        /\ \A i \in 1..Len(containers) :
              /\ Len(clean_text(TitleAnchor(containers[i]).text)) > 15
              /\ Contains(DP, TitleAnchor(containers[i]).href)
              /\ containers[i].rating # Absent
              /\ containers[i].price # Absent
        /\ \A i, j \in 1..Len(containers) :
              i # j => TitleAnchor(containers[i]).href
                          # TitleAnchor(containers[j]).href

\* Exactly 5 validated items, one per container, with the name, link,
\* rating and price of its container, and with rank "" when the page has no
\* badge.
FiveItems ==
    LET containers == ShapedPage(site[1])
        out == loc.first_batch
    IN  /\ Len(out) = 5
        /\ \A i \in 1..5 :
              /\ out[i].name = clean_text(TitleAnchor(containers[i]).text)
              /\ out[i].link = urljoin(BASE_URL, TitleAnchor(containers[i]).href)
              /\ out[i].rating = clean_text(containers[i].rating)
              /\ out[i].price = clean_text(containers[i].price)
              /\ (~site[1].badge => out[i].rank = <<>>)

ScrollStepReturns ==
    pc \in {"sc_wait", "sc_loop", "sc_final"} =>
        /\ pc' \in {"sc_loop", "sc_final", "ex_containers"}
        /\ hist'.boundary = ""

\* C13: scroll_to_bottom_enhanced has no failure outcome: whatever the page
\* handle does, it returns a container count to its caller and raises
\* nothing.
C13_ScrollNeverFails == [][ScrollStepReturns]_vars

(***************************************************************************)
(* Properties of navigate_to_next_page, under Spec.                        *)
(***************************************************************************)
\* C14: the tactics are attempted in the order 1 to 5, each at most once;
\* tactic k+1 only after tactic k raised, its DOM-ready wait failed, or its
\* verification failed (no page 2 in the URL and fewer than 10 containers);
\* once a tactic passes verification success is reported and no other is
\* attempted; tactic 5 runs only after tactics 1 to 4 failed.
C14_TacticsInOrder ==
    /\ Len(hist.tried) <= 5
    /\ \A i \in DOMAIN hist.tried : hist.tried[i] = i
    /\ pc = "nav" =>
          /\ hist.nav = "none"
          /\ loc.tactic \in 1..5
          /\ Len(hist.tried) = loc.tactic - 1
          /\ loc.tactic > 1 =>
                /\ hist.why \in {"raised", "wait", "unverified"}
                /\ hist.why = "unverified" =>
                      /\ ~Contains(PG2, page.url)
                      /\ ~Contains(PAGE2, page.url)
                      /\ page.loaded < 10
    /\ pc = "settle2" =>
          /\ hist.nav = "success"
          /\ Len(hist.tried) >= 1
          /\ \/ Contains(PG2, page.url)
             \/ Contains(PAGE2, page.url)
             \/ page.loaded >= 10
    /\ hist.nav = "failed" => hist.tried = <<1, 2, 3, 4, 5>>

\* Success reported by the URL rewrite, after the four clicks failed: the
\* URL names page 2 while no container has loaded.
C14_Witness ==
    /\ pc = "settle2"
    /\ hist.tried = <<1, 2, 3, 4, 5>>
    /\ page.cur = 2
    /\ page.loaded = 0

(***************************************************************************)
(* Properties of scroll_to_bottom_enhanced, under SpecPage.                *)
(***************************************************************************)
\* The loop is left and not re-entered before the extraction.
ScrollLoopLeft == pc = "sc_final" => pc' # "sc_loop"

\* C15: with no failing call the scroll loop ends after at most 8 scrolls;
\* it ends before the budget is used exactly at the first turn that has seen
\* at least 2 consecutive turns without an increase and measures at least
\* 20 containers, no scroll follows that turn, and with fewer than 20
\* containers the whole budget is used.  (loc.scroll_num is the number of
\* turns completed before the one that stopped the loop, page.loaded the
\* count of the last turn.)
C15_ScrollTerminates ==
    /\ [](pc \in {"sc_loop", "sc_final"} => loc.scroll_num \in 0..8)
    /\ []((pc = "sc_loop" /\ loc.scroll_num > 0) =>
            /\ loc.scroll_num < 8
            /\ ~(loc.stable_iterations >= 2 /\ page.loaded >= 20))
    /\ []((pc = "sc_final" /\ loc.scroll_num < 8) =>
            (loc.stable_iterations >= 2 /\ page.loaded >= 20))
    /\ []((pc = "sc_final" /\ page.loaded < 20) => loc.scroll_num = 8)
    /\ [][ScrollLoopLeft]_vars

\* The loop stopped at its third turn on 20 containers.
C15_Witness ==
    /\ pc = "sc_final"
    /\ loc.scroll_num = 2
    /\ page.loaded = 20
    /\ loc.stable_iterations = 2

\* The loop used its budget on 15 containers.
C15_FullBudget ==
    /\ pc = "sc_final"
    /\ loc.scroll_num = 8
    /\ page.loaded = 15

(***************************************************************************)
(* Properties of the field extractors, under SpecField.                    *)
(***************************************************************************)
FieldsRead == pc = "fld_done" /\ loc.candidate # <<>>

NoneRaised(log) == \A i \in DOMAIN log : log[i].out # "raised"

\* C16: the candidate the container-based extractor emits carries the
\* rating and the price the strategy chains return on its container.
C16_CandidateCarriesChainValues ==
    (FieldsRead /\ NoneRaised(hist.rating) /\ NoneRaised(hist.price)) =>
        /\ loc.candidate[1].rating = loc.rating
        /\ loc.candidate[1].price = loc.price

\* The log of one chain: the strategies run in order from the first, none
\* after one that gave a value; once returned, the result is the value of
\* the last strategy run, or "" after all of them ran without a value.
ChainRun(log, total, returned, result) ==
    /\ Len(log) <= total
    /\ \A i \in DOMAIN log : log[i].k = i
    /\ \A i \in DOMAIN log : i < Len(log) => log[i].out # "value"
    /\ \A i \in DOMAIN log : log[i].out = "value" => ~Falsy(log[i].value)
    /\ returned =>
          /\ log # <<>>
          /\ IF log[Len(log)].out = "value"
             THEN result = log[Len(log)].value
             ELSE Len(log) = total /\ result = <<>>

\* C17: both field extractors try their strategies in a fixed order, return
\* the value of the first strategy that gives one without running a later
\* one, go on to the next strategy after a failing call, return "" when no
\* strategy gives a value, and never raise.
C17_FirstValueWins ==
    /\ ret.outcome = "running"
    /\ ChainRun(hist.rating, 4, pc # "fld_rating", loc.rating)
    /\ ChainRun(hist.price, 5, pc \notin {"fld_rating", "fld_price"}, loc.price)
    /\ pc = "fld_rating" => loc.strategy = Len(hist.rating) + 1
    /\ pc = "fld_price" => loc.strategy = Len(hist.price) + 1

\* The rating came from the third strategy after the first raised and the
\* second found nothing, and no price strategy gave a value, two of them
\* raising.
C17_Witness ==
    /\ pc = "fld_done"
    /\ Len(hist.rating) = 3
    /\ hist.rating[1].out = "raised"
    /\ hist.rating[2].out = "nothing"
    /\ loc.rating = <<"4", ".", "1", " ", "S", "t", "a", "r", "s">>
    /\ Len(hist.price) = 5
    /\ hist.price[2].out = "raised"
    /\ hist.price[5].out = "raised"
    /\ loc.price = <<>>

(***************************************************************************)
(* Properties of the order of the steps within a category, under Spec.     *)
(***************************************************************************)
ExtractionSteps == {"ex_containers", "ex_fallback", "ex_validate"}

\* Extraction is entered from the end of the scrolling only, leaves the page
\* as it is, and ends in the navigation (after the first page), the result
\* or a failure; the navigation is entered from the validation of the
\* first page's items only.
ExtractionOrdered ==
    /\ (pc' \in ExtractionSteps /\ pc \notin ExtractionSteps) => pc = "sc_final"
    /\ pc \in ExtractionSteps =>
          /\ page' = page
          /\ pc' \in ExtractionSteps \cup {"nav", "finish", "done"}
    /\ (pc' = "nav" /\ pc # "nav") => (pc = "ex_validate" /\ loc.batch = 1)

\* C18: a page is read for extraction only after its scrolling has
\* finished; the first page's extraction ends before the first pagination
\* tactic runs; no navigation, reload or click happens during a page's
\* extraction.
C18_ScrollExtractNavigate ==
    /\ []((pc \in ExtractionSteps /\ loc.batch = 1) =>
            (page.cur = 1 /\ hist.nav = "none" /\ hist.tried = <<>>))
    /\ []((pc \in ExtractionSteps /\ loc.batch = 2) =>
            (hist.nav = "success" /\ hist.raw[1] # <<>>))
    /\ []((pc = "nav" \/ hist.nav # "none") => Len(loc.first_batch) >= 15)
    /\ [][ExtractionOrdered]_vars

\* The second page is being extracted, with the fallback, after a tactic
\* reached it.
C18_Witness ==
    /\ pc = "ex_fallback"
    /\ loc.batch = 2
    /\ page.cur = 2
    /\ hist.tried = <<>>
    /\ hist.nav = "success"
    /\ Len(hist.raw[1]) >= 15

\* The reload follows the first count, when that is below 5, and nothing
\* else; after it the extraction of the first page starts, whatever the
\* second count.
ReloadStep ==
    /\ (pc = "start" /\ pc' # "done") =>
          /\ pc' = IF page'.loaded < 5 THEN "reload" ELSE "sc_wait"
          /\ loc'.initial_asin_count = page'.loaded
    /\ (pc' = "reload" /\ pc # "reload") => pc = "start"
    /\ (pc = "reload" /\ pc' # "done") =>
          /\ pc' = "sc_wait"
          /\ loc'.batch = 1
          /\ loc'.initial_asin_count = page'.loaded

\* C19: the page is reloaded exactly when the first container count is
\* below 5, at most once per category also when the second count is below 5
\* too, and before the extraction of the first page.
C19_ReloadOnce ==
    /\ [](pc = "reload" =>
            /\ loc.initial_asin_count < 5
            /\ loc.batch = 1
            /\ hist.raw = <<<<>>, <<>>>>
            /\ loc.items = <<>>)
    /\ [][ReloadStep]_vars

\* The first page's extraction starts after a reload that left the count
\* below 5.
C19_Witness ==
    /\ pc = "sc_wait"
    /\ loc.batch = 1
    /\ loc.initial_asin_count = 0
    /\ page.loaded = 0
    /\ site[1].n = 15

\* C20: category_items lists the surviving items in first-seen order, those
\* of page 1 before those of page 2: each is the earliest item of the two
\* batches with its link, they stand in the order of these earliest items,
\* and they are the first 100 of them.
C20_FirstSeenOrder ==
    (Returned /\ hist.boundary = "") =>
        LET all_items == loc.first_batch \o loc.second_batch
            FirstSeen(j) == \A i \in 1..(j - 1) : all_items[i].link # all_items[j].link
            order == SelectSeq([j \in 1..Len(all_items) |-> j], FirstSeen)
            kept == IF Len(order) < 100 THEN Len(order) ELSE 100
        IN  ret.value.category_items
                = [i \in 1..kept |-> WithoutKey(all_items[order[i]], "asin")]

\* Two pages were merged, items of the second were removed as seen before,
\* and items of both pages are in the result.
C20_Witness ==
    /\ Returned
    /\ hist.boundary = ""
    /\ ret.value.extraction_stats.page2_items > 0
    /\ ret.value.extraction_stats.final_unique_items
           < ret.value.extraction_stats.total_before_dedup
    /\ ret.value.extraction_stats.final_unique_items
           > ret.value.extraction_stats.page1_items

(***************************************************************************)
(* Properties of the batch loop, under SpecBatch.                          *)
(***************************************************************************)
\* The categories are scraped once each, in source order, whatever failed.
ScrapedInOrder ==
    /\ hist.scraped = [i \in 1..Len(hist.scraped) |-> i]
    /\ Len(hist.scraped) = IF pc = "batch_scrape" THEN loc.idx - 1
                           ELSE IF pc = "batch_report" THEN loc.idx
                           ELSE Len(loc.categories)

\* C21: every category of the source is scraped exactly once, in source
\* order, whatever failed before it, and when the loop has ended the output
\* has, under the name of every category, the data its scrape returned.
C21_EveryCategoryRecorded ==
    /\ ScrapedInOrder
    /\ pc = "batch_done" =>
          \A i \in DOMAIN loc.categories :
              /\ loc.categories[i].name \in DOMAIN loc.result
              /\ loc.result[loc.categories[i].name] = hist.returned[i]

(***************************************************************************)
(* Properties of the two extractors, under SpecPage.                       *)
(***************************************************************************)
\* The container method has run on the page and its items stand in
\* loc.items.
ContainerMethodDone ==
    /\ pc \in {"ex_fallback", "ex_validate"}
    /\ ~loc.fallback.ran
    /\ page.loaded >= 10

\* C22: a container whose read raises is the only one skipped for it; of
\* the first 100 containers, those read without a failure that have a name
\* anchor give one candidate each, in container order, and no other
\* candidate is emitted; every candidate has a name of more than 15
\* characters and a link; there are at most 100.
C22_OnlyFailingContainerSkipped ==
    ContainerMethodDone =>
        LET dom == Dom
            n == IF Len(dom) < 100 THEN Len(dom) ELSE 100
            Named(i) == \E j \in DOMAIN dom[i].anchors :
                            ProductAnchor(clean_text(dom[i].anchors[j].text),
                                          dom[i].anchors[j].href)
            Emits(i) == i \notin hist.failing /\ Named(i)
            emitting == SelectSeq([i \in 1..n |-> i], Emits)
        IN  /\ Len(loc.items) = Len(emitting)
            /\ Len(loc.items) <= 100
            /\ \A k \in DOMAIN loc.items :
                  /\ loc.items[k].asin = dom[emitting[k]].asin
                  /\ loc.items[k].link
                         = urljoin(BASE_URL, TitleAnchor(dom[emitting[k]]).href)
                  /\ ~Falsy(loc.items[k].name)
                  /\ ~Falsy(loc.items[k].link)
                  /\ Len(loc.items[k].name) > 15

\* The read of the first of 20 containers raised and the other 19 gave
\* their candidates.
C22_Witness ==
    /\ ContainerMethodDone
    /\ hist.failing = {1}
    /\ page.loaded = 20
    /\ Len(loc.items) = 19

\* 100 candidates from a page of 101 containers.
C22_Capped ==
    /\ ContainerMethodDone
    /\ page.loaded = 101
    /\ Len(loc.items) = 100

(***************************************************************************)
(* Properties of extract_using_universal_selectors, under SpecFallback.    *)
(***************************************************************************)
\* The fallback returned and none of its reads raised.
FallbackRead == pc = "fb_done" /\ loc.fallback.ran /\ hist.skipped = 0

\* Element i of the elements of one kind on the page, or "" past their end.
ElementOr(dom, field, i) ==
    LET present == SelectSeq([k \in 1..Len(dom) |-> dom[k][field]],
                             LAMBDA x : x # Absent)
    IN  IF i <= Len(present) THEN clean_text(present[i]) ELSE <<>>

\* C23: the fallback emits one candidate for each of the first 50 plausible
\* product links of the page, in page order, and no more; candidate i has
\* the rank, price and rating of element i of the page's badges, price
\* spans and rating links, and "" where there is no element i; it is
\* emitted all the same.
C23_PositionalCorrelation ==
    FallbackRead =>
        LET dom == Dom
            items == loc.fallback.items
            anchors == PageAnchors(dom)
            Plausible(a) ==
                /\ Len(clean_text(a.text)) > 15
                /\ Contains(DP, a.href)
                /\ ~RatingPhrase(clean_text(a.text))
                /\ ~Contains(<<"s", "t", "a", "r">>, Lower(clean_text(a.text)))
            plausible == SelectSeq(anchors, Plausible)
        IN  /\ Len(items) = IF Len(plausible) < 50 THEN Len(plausible) ELSE 50
            /\ \A i \in DOMAIN items :
                  /\ items[i].name = clean_text(plausible[i].text)
                  /\ items[i].link = urljoin(BASE_URL, plausible[i].href)
                  /\ items[i].rank = ElementOr(dom, "badge", i)
                  /\ items[i].price = ElementOr(dom, "price", i)
                  /\ items[i].rating = ElementOr(dom, "rating", i)

\* 50 candidates from a page of 60 products without badges and with two
\* price spans: the third has a rating and neither rank nor price.
C23_Witness ==
    /\ FallbackRead
    /\ site[1].n = 60
    /\ ~site[1].badge
    /\ ~site[1].priced
    /\ Len(loc.fallback.items) = 50
    /\ loc.fallback.items[3].rank = <<>>
    /\ loc.fallback.items[3].price = <<>>
    /\ loc.fallback.items[3].rating # <<>>
    /\ loc.fallback.items[2].price # <<>>

(***************************************************************************)
(* Properties of navigate_by_url_modification, under SpecRewrite.          *)
(***************************************************************************)
\* s cut at every occurrence of the character c.
RECURSIVE SplitAt(_, _)
SplitAt(s, c) ==
    LET hits == {i \in 1..Len(s) : s[i] = c}
    IN  IF hits = {} THEN <<s>>
        ELSE <<SubSeq(s, 1, SetMin(hits) - 1)>>
                 \o SplitAt(SubSeq(s, SetMin(hits) + 1, Len(s)), c)

\* The query parameters of a URL, and the values of its pg parameters.
ParamsOf(url) ==
    LET parts == SplitAt(url, "?")
    IN  IF Len(parts) = 1 THEN <<>>
        ELSE SplitAt(SubSeq(url, Len(parts[1]) + 2, Len(url)), "&")

PgValues(url) ==
    LET pgs == SelectSeq(ParamsOf(url), LAMBDA q : StartsAt(q, 1, <<"p", "g", "=">>))
    IN  [i \in DOMAIN pgs |-> SubSeq(pgs[i], 4, Len(pgs[i]))]

Rewritten == pc = "rw_done" /\ ret.outcome = "running"

\* C24: the target has pg=2 in the place of the parameter pg=1 when the URL
\* has it; pg=2 is appended, after "?" when the URL has no query part and
\* after "&" otherwise, only when the URL has no pg parameter; in every
\* case the target's page parameter is 2.
C24_TargetIsPageTwo ==
    Rewritten =>
        LET from == hist.from
            to == page.url
            params == ParamsOf(from)
            base == SplitAt(from, "?")[1]
            swapped == [i \in DOMAIN params |->
                           IF params[i] = PG1 THEN PG2 ELSE params[i]]
        IN  /\ (\E i \in DOMAIN params : params[i] = PG1) =>
                  to = base \o <<"?">> \o Join(<<"&">>, swapped)
            /\ PgValues(from) = <<>> =>
                  to = from \o (IF params = <<>> THEN <<"?">> ELSE <<"&">>) \o PG2
            /\ PgValues(from) # <<>> => Len(ParamsOf(to)) = Len(params)
            /\ PgValues(to) # <<>>
            /\ \A i \in DOMAIN PgValues(to) : PgValues(to)[i] = <<"2">>

\* The claim on the URLs without a pg parameter, or with pg=1 as their only
\* pg parameter.
C24_PlainUrls ==
    (Rewritten /\ \A i \in DOMAIN PgValues(hist.from) : PgValues(hist.from)[i] = <<"1">>)
        => /\ PgValues(page.url) # <<>>
           /\ \A i \in DOMAIN PgValues(page.url) : PgValues(page.url)[i] = <<"2">>

(***************************************************************************)
(* Properties of the navigation and of the results, under Spec.            *)
(***************************************************************************)
\* C25: when navigate_to_next_page has reported success the page displayed
\* is page 2, and the second batch is extracted from page 2 only.
C25_SuccessShowsPageTwo ==
    /\ hist.nav = "success" => page.cur = 2
    /\ (loc.batch = 2 /\ pc \in ExtractionSteps) => page.cur = 2

\* A failure reached the except clause of scrape_category after the first
\* page's items had been extracted and validated.
FailedAfterFirstBatch ==
    /\ Returned
    /\ hist.boundary # ""
    /\ loc.first_batch # <<>>

\* C26: when a failure reaches the category boundary after the first page
\* was extracted, the result has no items and page1_items, page2_items,
\* total_before_dedup and final_unique_items are all 0.
C26_FailureDiscardsFirstBatch ==
    FailedAfterFirstBatch =>
        /\ ret.value.category_items = <<>>
        /\ ret.value.extraction_stats.page1_items = 0
        /\ ret.value.extraction_stats.page2_items = 0
        /\ ret.value.extraction_stats.total_before_dedup = 0
        /\ ret.value.extraction_stats.final_unique_items = 0
        /\ "error" \in DOMAIN ret.value.extraction_stats

\* The network-idle and DOM-ready waits of the second page's scrolling
\* failed after 30 items had been extracted from the first page.
C26_Witness ==
    /\ FailedAfterFirstBatch
    /\ hist.boundary = "wait_for_load_state"
    /\ loc.batch = 2
    /\ page.cur = 2
    /\ Len(loc.first_batch) = 30

\* C27: in every result returned without an error field,
\* total_before_dedup = page1_items + page2_items,
\* min(100, page1_items) <= final_unique_items <= min(100, total_before_dedup),
\* and page2_items > 0 only if page1_items >= 15.
C27_StatsConsistent ==
    (Returned /\ "error" \notin DOMAIN ret.value.extraction_stats) =>
        LET stats == ret.value.extraction_stats
            Min100(x) == IF x < 100 THEN x ELSE 100
        IN  /\ stats.total_before_dedup = stats.page1_items + stats.page2_items
            /\ Min100(stats.page1_items) <= stats.final_unique_items
            /\ stats.final_unique_items <= Min100(stats.total_before_dedup)
            /\ stats.page2_items > 0 => stats.page1_items >= 15
            /\ stats.final_unique_items = Len(ret.value.category_items)

\* A result of two pages from which the deduplication removed items: 30 and
\* 25 items, 45 of them returned.
C27_Witness ==
    /\ Returned
    /\ "error" \notin DOMAIN ret.value.extraction_stats
    /\ ret.value.extraction_stats.page1_items = 30
    /\ ret.value.extraction_stats.page2_items = 25
    /\ ret.value.extraction_stats.total_before_dedup = 55
    /\ ret.value.extraction_stats.final_unique_items = 45

=============================================================================
